---------------------------- MODULE Spec2Model ----------------------------
(***************************************************************************)
(* The detection-and-correlation pipeline of convert_xml_yaml:             *)
(* ComponentDetector, CompositeComponentManager, FlowDetector,             *)
(* ThreatDetector, the validate-and-correct helpers, ThreagileMapper and   *)
(* ThreagileValidator, as a state machine whose actions are the public     *)
(* operations applied to bounded inputs.                                   *)
(*                                                                         *)
(* Text (labels, styles, ids) is a sequence of one-character strings, so   *)
(* that lower(), the substring test `k in s` and re.search are computed,   *)
(* not assumed.  Scores that Python keeps as floats are kept as exact      *)
(* fractions: component scores in units of 1/8400 (ScoreUnit), risk        *)
(* scores as pairs <<numerator, denominator>>.                             *)
(***************************************************************************)
EXTENDS Integers, Sequences, FiniteSets, TLC

(***************************************************************************)
(* Bounds of the model.                                                    *)
(***************************************************************************)
\* the longest cell sequence of a diagram
MaxCells == 3
\* the last day the clock reaches
MaxDay == 1
\* the most members given to a parent component
MaxMembers == 3
\* the longest list of threats handed to the correlation of threats
MaxThreats == 3

(***************************************************************************)
(* Text helpers.                                                           *)
(***************************************************************************)
\* a local variable: f maps the value Python binds to a name, computed
\* once, to what follows the assignment
Let(f) == f[CHOOSE v \in DOMAIN f : TRUE]

\* a Python list built by a comprehension: the sequence with its elements
\* computed once, when the list is built
List(f) == f \o << >>

\* str.lower()
Lower(s) ==
  LET upper == <<"A","B","C","D","E","F","G","H","I","J","K","L","M",
                 "N","O","P","Q","R","S","T","U","V","W","X","Y","Z">>
      lower == <<"a","b","c","d","e","f","g","h","i","j","k","l","m",
                 "n","o","p","q","r","s","t","u","v","w","x","y","z">>
  IN  List([i \in 1..Len(s) |->
              IF \E k \in 1..26 : upper[k] = s[i]
                THEN lower[CHOOSE k \in 1..26 : upper[k] = s[i]]
                ELSE s[i]])

\* k occurs in s at offset i (0-based)
StartsAt(k, s, i) ==
  /\ i + Len(k) <= Len(s)
  /\ \A j \in 1..Len(k) : s[i + j] = k[j]

\* Python's `k in s` on strings; the empty string is in every string
Contains(k, s) == \E i \in 0..Len(s) : StartsAt(k, s, i)

\* \s of the regular expressions (the labels of the model hold no other
\* white space than the blank)
IsSpace(c) == c = " "

\* an alternative  seg1\s*seg2\s*...  matches s at offset i
RECURSIVE MatchSegs(_, _, _)
MatchSegs(segs, s, i) ==
  IF segs = << >> THEN TRUE
  ELSE LET k == Head(segs)
           e == i + Len(k)
       IN  /\ StartsAt(k, s, i)
           /\ \/ Len(segs) = 1
              \/ \E n \in 0..(Len(s) - e) :
                   /\ \A j \in 1..n : IsSpace(s[e + j])
                   /\ MatchSegs(Tail(segs), s, e + n)

\* bool(re.search(pattern, s)) for a pattern (?i)(alt1|alt2|...)
re_search(pattern, s) ==
  \E lowered \in {Lower(s)} :
    \E a \in 1..Len(pattern) : \E i \in 0..Len(lowered) :
      MatchSegs(pattern[a], lowered, i)

\* any(bool(re.search(p, s)) for p in patterns)
AnyPattern(patterns, s) ==
  \E p \in 1..Len(patterns) : re_search(patterns[p], s)

\* the characters of a text as one TLA+ string (str())
RECURSIVE Join(_)
Join(s) == IF s = << >> THEN "" ELSE Head(s) \o Join(Tail(s))

\* dict.get(k, default) and `k in dict`
HasKey(d, k) == k \in DOMAIN d
Get(d, k, default) == IF k \in DOMAIN d THEN d[k] ELSE default

\* the elements of a sequence
Range(s) == {s[i] : i \in 1..Len(s)}


\* a value that Python may hold as a str or as a bool (a flow's encryption
\* is a bool where it is known and the str 'none' where it is not)
PyStr(s) == [ py |-> "str", s |-> s ]
PyBool(b) == [ py |-> "bool", b |-> b ]

(***************************************************************************)
(* COMPONENT_TYPES (components/component_types.py), in declaration order:  *)
(* a Python dict iterates in insertion order, which max() and the loops    *)
(* over the table rely on.                                                 *)
(***************************************************************************)
COMPONENT_TYPES ==
  <<
    [ name |-> "web-application",
      styles |-> << <<"w","e","b">>, <<"b","r","o","w","s","e","r">>, <<"c","l","i","e","n","t">>, <<"f","r","o","n","t","e","n","d">>, <<"u","i">>, <<"i","n","t","e","r","f","a","c","e">> >>,
      authentication |-> "required", authorization |-> "required", data_sensitivity |-> "internal" ],
    [ name |-> "api",
      styles |-> << <<"a","p","i">>, <<"r","e","s","t">>, <<"g","r","a","p","h","q","l">>, <<"e","n","d","p","o","i","n","t">>, <<"s","e","r","v","i","c","e">> >>,
      authentication |-> "required", authorization |-> "required", data_sensitivity |-> "internal" ],
    [ name |-> "database",
      styles |-> << <<"d","a","t","a","b","a","s","e">>, <<"d","b">>, <<"s","q","l">>, <<"n","o","s","q","l">>, <<"p","o","s","t","g","r","e","s">>, <<"m","y","s","q","l">>, <<"m","o","n","g","o","d","b">>, <<"o","r","a","c","l","e">> >>,
      authentication |-> "required", authorization |-> "required", data_sensitivity |-> "confidential" ],
    [ name |-> "cloud-service",
      styles |-> << <<"c","l","o","u","d">>, <<"a","w","s">>, <<"a","z","u","r","e">>, <<"g","c","p">>, <<"s","3">>, <<"l","a","m","b","d","a">>, <<"f","u","n","c","t","i","o","n">> >>,
      authentication |-> "required", authorization |-> "required", data_sensitivity |-> "internal" ],
    [ name |-> "serverless",
      styles |-> << <<"l","a","m","b","d","a">>, <<"f","u","n","c","t","i","o","n">>, <<"s","e","r","v","e","r","l","e","s","s">>, <<"f","a","a","s">> >>,
      authentication |-> "required", authorization |-> "required", data_sensitivity |-> "internal" ],
    [ name |-> "microservice",
      styles |-> << <<"s","e","r","v","i","c","e">>, <<"m","i","c","r","o","s","e","r","v","i","c","e">>, <<"m","s">>, <<"b","a","c","k","e","n","d">> >>,
      authentication |-> "required", authorization |-> "required", data_sensitivity |-> "internal" ],
    [ name |-> "load-balancer",
      styles |-> << <<"l","o","a","d","-","b","a","l","a","n","c","e","r">>, <<"l","b">>, <<"h","a","p","r","o","x","y">>, <<"n","g","i","n","x">> >>,
      authentication |-> "none", authorization |-> "none", data_sensitivity |-> "public" ],
    [ name |-> "cache",
      styles |-> << <<"c","a","c","h","e">>, <<"r","e","d","i","s">>, <<"m","e","m","c","a","c","h","e","d">>, <<"m","e","m","o","r","y">> >>,
      authentication |-> "required", authorization |-> "required", data_sensitivity |-> "internal" ],
    [ name |-> "message-queue",
      styles |-> << <<"q","u","e","u","e">>, <<"k","a","f","k","a">>, <<"r","a","b","b","i","t","m","q">>, <<"m","q">>, <<"m","e","s","s","a","g","e">> >>,
      authentication |-> "required", authorization |-> "required", data_sensitivity |-> "internal" ],
    [ name |-> "process",
      styles |-> << <<"p","r","o","c","e","s","s">>, <<"a","p","p","l","i","c","a","t","i","o","n">>, <<"a","p","p">>, <<"p","r","o","g","r","a","m">> >>,
      authentication |-> "none", authorization |-> "none", data_sensitivity |-> "public" ],
    [ name |-> "gateway",
      styles |-> << <<"g","a","t","e","w","a","y">>, <<"a","p","i","-","g","a","t","e","w","a","y">>, <<"p","r","o","x","y">> >>,
      authentication |-> "required", authorization |-> "required", data_sensitivity |-> "internal" ],
    [ name |-> "cdn",
      styles |-> << <<"c","d","n">>, <<"c","o","n","t","e","n","t","-","d","e","l","i","v","e","r","y">>, <<"e","d","g","e">> >>,
      authentication |-> "none", authorization |-> "none", data_sensitivity |-> "public" ],
    [ name |-> "monitoring",
      styles |-> << <<"m","o","n","i","t","o","r","i","n","g">>, <<"m","e","t","r","i","c","s">>, <<"l","o","g","g","i","n","g">>, <<"p","r","o","m","e","t","h","e","u","s">>, <<"g","r","a","f","a","n","a">> >>,
      authentication |-> "required", authorization |-> "required", data_sensitivity |-> "internal" ] >>

(***************************************************************************)
(* ComponentDetector.advanced_patterns: the 'patterns' lists.  A pattern   *)
(* (?i)(a|b\s*c) is a sequence of alternatives, an alternative a sequence  *)
(* of literal segments separated by \s*.                                   *)
(***************************************************************************)
advanced_patterns ==
  <<
    [ name |-> "database", patterns |-> <<
        << << <<"d","b">> >>, << <<"d","a","t","a","b","a","s","e">> >>, << <<"s","q","l">> >>, << <<"n","o","s","q","l">> >>, << <<"p","o","s","t","g","r","e","s">> >>, << <<"m","y","s","q","l">> >>, << <<"m","o","n","g","o","d","b">> >>, << <<"o","r","a","c","l","e">> >> >>,
        << << <<"d","a","t","a">>, <<"s","t","o","r","e">> >>, << <<"d","a","t","a">>, <<"w","a","r","e","h","o","u","s","e">> >>, << <<"d","a","t","a">>, <<"l","a","k","e">> >> >>,
        << << <<"r","d","b","m","s">> >>, << <<"d","o","c","u","m","e","n","t">>, <<"s","t","o","r","e">> >>, << <<"k","e","y">>, <<"v","a","l","u","e">> >> >> >> ],
    [ name |-> "api", patterns |-> <<
        << << <<"a","p","i">> >>, << <<"r","e","s","t">> >>, << <<"g","r","a","p","h","q","l">> >>, << <<"e","n","d","p","o","i","n","t">> >>, << <<"s","e","r","v","i","c","e">> >> >>,
        << << <<"r","e","s","o","u","r","c","e">> >>, << <<"c","o","n","t","r","o","l","l","e","r">> >>, << <<"h","a","n","d","l","e","r">> >> >>,
        << << <<"g","a","t","e","w","a","y">> >>, << <<"p","r","o","x","y">> >>, << <<"r","o","u","t","e","r">> >> >> >> ],
    [ name |-> "web-application", patterns |-> <<
        << << <<"w","e","b">> >>, << <<"b","r","o","w","s","e","r">> >>, << <<"c","l","i","e","n","t">> >>, << <<"f","r","o","n","t","e","n","d">> >>, << <<"u","i">> >>, << <<"i","n","t","e","r","f","a","c","e">> >> >>,
        << << <<"s","p","a">> >>, << <<"m","p","a">> >>, << <<"a","p","p","l","i","c","a","t","i","o","n">> >> >>,
        << << <<"p","o","r","t","a","l">> >>, << <<"d","a","s","h","b","o","a","r","d">> >>, << <<"c","o","n","s","o","l","e">> >> >> >> ],
    [ name |-> "cloud-service", patterns |-> <<
        << << <<"c","l","o","u","d">> >>, << <<"a","w","s">> >>, << <<"a","z","u","r","e">> >>, << <<"g","c","p">> >>, << <<"s","3">> >>, << <<"l","a","m","b","d","a">> >>, << <<"f","u","n","c","t","i","o","n">> >> >>,
        << << <<"m","a","n","a","g","e","d">>, <<"s","e","r","v","i","c","e">> >>, << <<"p","l","a","t","f","o","r","m">>, <<"s","e","r","v","i","c","e">> >> >>,
        << << <<"i","n","f","r","a","s","t","r","u","c","t","u","r","e">>, <<"a","s">>, <<"c","o","d","e">> >>, << <<"i","a","c">> >> >> >> ],
    [ name |-> "serverless", patterns |-> <<
        << << <<"l","a","m","b","d","a">> >>, << <<"f","u","n","c","t","i","o","n">> >>, << <<"s","e","r","v","e","r","l","e","s","s">> >>, << <<"f","a","a","s">> >> >>,
        << << <<"e","v","e","n","t">>, <<"d","r","i","v","e","n">> >>, << <<"t","r","i","g","g","e","r">> >> >>,
        << << <<"s","t","a","t","e","l","e","s","s">> >>, << <<"e","p","h","e","m","e","r","a","l">> >> >> >> ],
    [ name |-> "microservice", patterns |-> <<
        << << <<"s","e","r","v","i","c","e">> >>, << <<"m","i","c","r","o","s","e","r","v","i","c","e">> >>, << <<"m","s">> >>, << <<"b","a","c","k","e","n","d">> >> >>,
        << << <<"b","o","u","n","d","e","d">>, <<"c","o","n","t","e","x","t">> >>, << <<"d","o","m","a","i","n">> >> >>,
        << << <<"s","e","r","v","i","c","e">>, <<"m","e","s","h">> >>, << <<"s","i","d","e","c","a","r">> >> >> >> ],
    [ name |-> "load-balancer", patterns |-> <<
        << << <<"l","o","a","d","-","b","a","l","a","n","c","e","r">> >>, << <<"l","b">> >>, << <<"h","a","p","r","o","x","y">> >>, << <<"n","g","i","n","x">> >> >>,
        << << <<"t","r","a","f","f","i","c">>, <<"m","a","n","a","g","e","r">> >>, << <<"i","n","g","r","e","s","s">> >> >>,
        << << <<"r","e","v","e","r","s","e">>, <<"p","r","o","x","y">> >>, << <<"f","o","r","w","a","r","d">>, <<"p","r","o","x","y">> >> >> >> ],
    [ name |-> "cache", patterns |-> <<
        << << <<"c","a","c","h","e">> >>, << <<"r","e","d","i","s">> >>, << <<"m","e","m","c","a","c","h","e","d">> >>, << <<"m","e","m","o","r","y">> >> >>,
        << << <<"d","i","s","t","r","i","b","u","t","e","d">>, <<"c","a","c","h","e">> >>, << <<"s","e","s","s","i","o","n">>, <<"s","t","o","r","e">> >> >>,
        << << <<"i","n","-","m","e","m","o","r","y">> >>, << <<"t","e","m","p","o","r","a","r","y">>, <<"s","t","o","r","a","g","e">> >> >> >> ],
    [ name |-> "message-queue", patterns |-> <<
        << << <<"q","u","e","u","e">> >>, << <<"k","a","f","k","a">> >>, << <<"r","a","b","b","i","t","m","q">> >>, << <<"m","q">> >>, << <<"m","e","s","s","a","g","e">> >> >>,
        << << <<"e","v","e","n","t">>, <<"b","u","s">> >>, << <<"p","u","b">>, <<"s","u","b">> >> >>,
        << << <<"s","t","r","e","a","m">> >>, << <<"p","i","p","e","l","i","n","e">> >> >> >> ],
    [ name |-> "process", patterns |-> <<
        << << <<"p","r","o","c","e","s","s">> >>, << <<"a","p","p","l","i","c","a","t","i","o","n">> >>, << <<"a","p","p">> >>, << <<"p","r","o","g","r","a","m">> >> >>,
        << << <<"w","o","r","k","e","r">> >>, << <<"j","o","b">> >>, << <<"t","a","s","k">> >> >>,
        << << <<"b","a","t","c","h">> >>, << <<"s","c","h","e","d","u","l","e","d">> >> >> >> ],
    [ name |-> "gateway", patterns |-> <<
        << << <<"g","a","t","e","w","a","y">> >>, << <<"a","p","i","-","g","a","t","e","w","a","y">> >>, << <<"p","r","o","x","y">> >> >>,
        << << <<"b","f","f">> >>, << <<"b","a","c","k","e","n","d">>, <<"f","o","r">>, <<"f","r","o","n","t","e","n","d">> >> >>,
        << << <<"e","d","g","e">>, <<"s","e","r","v","i","c","e">> >>, << <<"e","n","t","r","y">>, <<"p","o","i","n","t">> >> >> >> ],
    [ name |-> "cdn", patterns |-> <<
        << << <<"c","d","n">> >>, << <<"c","o","n","t","e","n","t","-","d","e","l","i","v","e","r","y">> >>, << <<"e","d","g","e">> >> >>,
        << << <<"s","t","a","t","i","c">>, <<"c","o","n","t","e","n","t">> >>, << <<"m","e","d","i","a">>, <<"d","e","l","i","v","e","r","y">> >> >>,
        << << <<"c","a","c","h","e">>, <<"n","e","t","w","o","r","k">> >>, << <<"d","i","s","t","r","i","b","u","t","e","d">>, <<"n","e","t","w","o","r","k">> >> >> >> ],
    [ name |-> "monitoring", patterns |-> <<
        << << <<"m","o","n","i","t","o","r","i","n","g">> >>, << <<"m","e","t","r","i","c","s">> >>, << <<"l","o","g","g","i","n","g">> >>, << <<"p","r","o","m","e","t","h","e","u","s">> >>, << <<"g","r","a","f","a","n","a">> >> >>,
        << << <<"o","b","s","e","r","v","a","b","i","l","i","t","y">> >>, << <<"t","e","l","e","m","e","t","r","y">> >> >>,
        << << <<"a","l","e","r","t">> >>, << <<"d","a","s","h","b","o","a","r","d">> >>, << <<"v","i","s","u","a","l","i","z","a","t","i","o","n">> >> >> >> ] >>

(***************************************************************************)
(* CompositeComponentManager.composite_patterns, in declaration order.     *)
(***************************************************************************)
composite_patterns ==
  <<
    [ name |-> "microservice",
      required_components |-> {"api", "database"},
      optional_components |-> {"cache", "message-queue"},
      naming_patterns |-> <<
        << << <<"s","e","r","v","i","c","e">> >>, << <<"m","i","c","r","o","s","e","r","v","i","c","e">> >>, << <<"b","a","c","k","e","n","d">> >> >>,
        << << <<"b","o","u","n","d","e","d">>, <<"c","o","n","t","e","x","t">> >>, << <<"d","o","m","a","i","n">> >> >> >> ],
    [ name |-> "web-application",
      required_components |-> {"api", "frontend"},
      optional_components |-> {"cache", "cdn"},
      naming_patterns |-> <<
        << << <<"w","e","b">> >>, << <<"a","p","p","l","i","c","a","t","i","o","n">> >>, << <<"p","o","r","t","a","l">> >> >>,
        << << <<"s","p","a">> >>, << <<"m","p","a">> >>, << <<"f","r","o","n","t","e","n","d">> >> >> >> ],
    [ name |-> "cloud-service",
      required_components |-> {"api", "database"},
      optional_components |-> {"monitoring", "serverless"},
      naming_patterns |-> <<
        << << <<"c","l","o","u","d">> >>, << <<"a","w","s">> >>, << <<"a","z","u","r","e">> >>, << <<"g","c","p">> >> >>,
        << << <<"m","a","n","a","g","e","d">>, <<"s","e","r","v","i","c","e">> >>, << <<"p","l","a","t","f","o","r","m">> >> >> >> ] >>

(***************************************************************************)
(* COMMUNICATION_PROTOCOLS (protocols/protocol_types.py), in declaration   *)
(* order.  No entry has a 'patterns' or a 'compatible_types' key.          *)
(***************************************************************************)
COMMUNICATION_PROTOCOLS ==
  <<
    [ name |-> "http", encryption |-> FALSE, authentication |-> "none", authorization |-> "none", patterns |-> << >>, compatible_types |-> {} ],
    [ name |-> "https", encryption |-> TRUE, authentication |-> "required", authorization |-> "required", patterns |-> << >>, compatible_types |-> {} ],
    [ name |-> "ws", encryption |-> FALSE, authentication |-> "none", authorization |-> "none", patterns |-> << >>, compatible_types |-> {} ],
    [ name |-> "wss", encryption |-> TRUE, authentication |-> "required", authorization |-> "required", patterns |-> << >>, compatible_types |-> {} ],
    [ name |-> "grpc", encryption |-> TRUE, authentication |-> "required", authorization |-> "required", patterns |-> << >>, compatible_types |-> {} ],
    [ name |-> "tcp", encryption |-> FALSE, authentication |-> "none", authorization |-> "none", patterns |-> << >>, compatible_types |-> {} ],
    [ name |-> "udp", encryption |-> FALSE, authentication |-> "none", authorization |-> "none", patterns |-> << >>, compatible_types |-> {} ],
    [ name |-> "mqtt", encryption |-> TRUE, authentication |-> "required", authorization |-> "required", patterns |-> << >>, compatible_types |-> {} ],
    [ name |-> "amqp", encryption |-> TRUE, authentication |-> "required", authorization |-> "required", patterns |-> << >>, compatible_types |-> {} ],
    [ name |-> "kafka", encryption |-> TRUE, authentication |-> "required", authorization |-> "required", patterns |-> << >>, compatible_types |-> {} ] >>

(***************************************************************************)
(* FlowDetector.conditional_patterns and bidirectional_patterns.           *)
(***************************************************************************)
conditional_patterns ==
  <<
    [ name |-> "if", pattern |-> << << <<"i","f">> >>, << <<"w","h","e","n">> >>, << <<"c","o","n","d","i","t","i","o","n">> >>, << <<"c","h","e","c","k">> >> >> ],
    [ name |-> "error", pattern |-> << << <<"e","r","r","o","r">> >>, << <<"e","x","c","e","p","t","i","o","n">> >>, << <<"f","a","i","l">> >>, << <<"i","n","v","a","l","i","d">> >> >> ],
    [ name |-> "timeout", pattern |-> << << <<"t","i","m","e","o","u","t">> >>, << <<"e","x","p","i","r","e">> >>, << <<"d","e","a","d","l","i","n","e">> >> >> ],
    [ name |-> "retry", pattern |-> << << <<"r","e","t","r","y">> >>, << <<"a","t","t","e","m","p","t">> >>, << <<"r","e","p","e","a","t">> >> >> ],
    [ name |-> "fallback", pattern |-> << << <<"f","a","l","l","b","a","c","k">> >>, << <<"a","l","t","e","r","n","a","t","i","v","e">> >>, << <<"b","a","c","k","u","p">> >> >> ] >>

bidirectional_patterns ==
  <<
    [ name |-> "sync", pattern |-> << << <<"s","y","n","c">> >>, << <<"s","y","n","c","h","r","o","n","o","u","s">> >>, << <<"r","e","q","u","e","s","t","-","r","e","s","p","o","n","s","e">> >> >> ],
    [ name |-> "async", pattern |-> << << <<"a","s","y","n","c">> >>, << <<"a","s","y","n","c","h","r","o","n","o","u","s">> >>, << <<"e","v","e","n","t">> >> >> ],
    [ name |-> "stream", pattern |-> << << <<"s","t","r","e","a","m">> >>, << <<"c","o","n","t","i","n","u","o","u","s">> >>, << <<"r","e","a","l","t","i","m","e">> >> >> ],
    [ name |-> "websocket", pattern |-> << << <<"w","e","b","s","o","c","k","e","t">> >>, << <<"w","s">> >>, << <<"w","s","s">> >> >> ],
    [ name |-> "grpc", pattern |-> << << <<"g","r","p","c">> >>, << <<"r","p","c">> >>, << <<"r","e","m","o","t","e">> >> >> ] >>

(***************************************************************************)
(* ThreatDetector.threat_patterns, in declaration order.  risk_factors     *)
(* keeps the weights in tenths (0.8 is 8).                                 *)
(***************************************************************************)
threat_patterns ==
  <<
    [ name |-> "authentication",
      patterns |-> <<
        << << <<"a","u","t","h">> >>, << <<"l","o","g","i","n">> >>, << <<"p","a","s","s","w","o","r","d">> >>, << <<"c","r","e","d","e","n","t","i","a","l">> >> >>,
        << << <<"t","o","k","e","n">> >>, << <<"s","e","s","s","i","o","n">> >>, << <<"c","o","o","k","i","e">> >> >>,
        << << <<"i","d","e","n","t","i","t","y">> >>, << <<"u","s","e","r">> >>, << <<"a","c","c","o","u","n","t">> >> >> >>,
      risk_factors |-> << 8, 6, 4 >> ],
    [ name |-> "authorization",
      patterns |-> <<
        << << <<"a","u","t","h","z">> >>, << <<"p","e","r","m","i","s","s","i","o","n">> >>, << <<"r","o","l","e">> >>, << <<"a","c","c","e","s","s">> >> >>,
        << << <<"p","r","i","v","i","l","e","g","e">> >>, << <<"r","i","g","h","t">> >>, << <<"p","o","l","i","c","y">> >> >>,
        << << <<"c","o","n","t","r","o","l">> >>, << <<"r","e","s","t","r","i","c","t">> >>, << <<"l","i","m","i","t">> >> >> >>,
      risk_factors |-> << 8, 6, 4 >> ],
    [ name |-> "data_exposure",
      patterns |-> <<
        << << <<"d","a","t","a">> >>, << <<"i","n","f","o","r","m","a","t","i","o","n">> >>, << <<"s","e","n","s","i","t","i","v","e">> >> >>,
        << << <<"e","x","p","o","s","u","r","e">> >>, << <<"l","e","a","k">> >>, << <<"b","r","e","a","c","h">> >> >>,
        << << <<"p","i","i">> >>, << <<"p","e","r","s","o","n","a","l">> >>, << <<"c","o","n","f","i","d","e","n","t","i","a","l">> >> >> >>,
      risk_factors |-> << 8, 6, 4 >> ],
    [ name |-> "injection",
      patterns |-> <<
        << << <<"i","n","j","e","c","t","i","o","n">> >>, << <<"s","q","l">> >>, << <<"n","o","s","q","l">> >> >>,
        << << <<"x","s","s">> >>, << <<"s","c","r","i","p","t">> >>, << <<"c","o","d","e">> >> >>,
        << << <<"c","o","m","m","a","n","d">> >>, << <<"s","h","e","l","l">> >>, << <<"e","x","e","c">> >> >> >>,
      risk_factors |-> << 8, 6, 4 >> ],
    [ name |-> "dos",
      patterns |-> <<
        << << <<"d","o","s">> >>, << <<"d","d","o","s">> >>, << <<"f","l","o","o","d">> >> >>,
        << << <<"o","v","e","r","l","o","a","d">> >>, << <<"e","x","h","a","u","s","t">> >>, << <<"r","e","s","o","u","r","c","e">> >> >>,
        << << <<"b","o","t","t","l","e","n","e","c","k">> >>, << <<"t","h","r","o","t","t","l","e">> >>, << <<"l","i","m","i","t">> >> >> >>,
      risk_factors |-> << 8, 6, 4 >> ] >>

(***************************************************************************)
(* ThreatDetector.composite_threat_patterns, in declaration order.         *)
(* risk_multiplier in tenths (1.5 is 15).                                  *)
(***************************************************************************)
composite_threat_patterns ==
  <<
    [ name |-> "authentication_bypass", required_threats |-> {"authentication", "authorization"}, optional_threats |-> {"data_exposure", "injection"}, risk_multiplier |-> 15 ],
    [ name |-> "data_breach", required_threats |-> {"authorization", "data_exposure"}, optional_threats |-> {"authentication", "injection"}, risk_multiplier |-> 18 ],
    [ name |-> "service_compromise", required_threats |-> {"dos", "injection"}, optional_threats |-> {"authentication", "authorization"}, risk_multiplier |-> 16 ] >>
(***************************************************************************)
(* The spelling of each component type name, for the substring tests the   *)
(* code makes on type names ('database' in source_type).                   *)
(***************************************************************************)
type_chars ==
  ("web-application" :> <<"w","e","b","-","a","p","p","l","i","c","a","t","i","o","n">>)
  @@ ("api" :> <<"a","p","i">>)
  @@ ("database" :> <<"d","a","t","a","b","a","s","e">>)
  @@ ("cloud-service" :> <<"c","l","o","u","d","-","s","e","r","v","i","c","e">>)
  @@ ("serverless" :> <<"s","e","r","v","e","r","l","e","s","s">>)
  @@ ("microservice" :> <<"m","i","c","r","o","s","e","r","v","i","c","e">>)
  @@ ("load-balancer" :> <<"l","o","a","d","-","b","a","l","a","n","c","e","r">>)
  @@ ("cache" :> <<"c","a","c","h","e">>)
  @@ ("message-queue" :> <<"m","e","s","s","a","g","e","-","q","u","e","u","e">>)
  @@ ("process" :> <<"p","r","o","c","e","s","s">>)
  @@ ("gateway" :> <<"g","a","t","e","w","a","y">>)
  @@ ("cdn" :> <<"c","d","n">>)
  @@ ("monitoring" :> <<"m","o","n","i","t","o","r","i","n","g">>)
  @@ ("frontend" :> <<"f","r","o","n","t","e","n","d">>)
(***************************************************************************)
(* The spelling of each composite threat name, for f"composite_{comp_type}". *)
(***************************************************************************)
composite_threat_chars ==
  "authentication_bypass" :> <<"a","u","t","h","e","n","t","i","c","a","t","i","o","n","_","b","y","p","a","s","s">>
  @@ "data_breach" :> <<"d","a","t","a","_","b","r","e","a","c","h">>
  @@ "service_compromise" :> <<"s","e","r","v","i","c","e","_","c","o","m","p","r","o","m","i","s","e">>

(***************************************************************************)
(* The tables ThreagileMapper.__init__ sets on the mapper.  Every table    *)
(* maps each of its keys to itself, so a table is kept as the set of its   *)
(* keys.                                                                   *)
(***************************************************************************)
mapper ==
  [ component_type_mapping |->
      { "web-application", "mobile-app", "desktop-app", "service",
      "database", "file-storage", "message-queue", "load-balancer",
      "reverse-proxy", "waf", "ids", "ips", "vpn", "firewall", "gateway",
      "api-gateway", "service-mesh", "monitoring", "logging",
      "authentication", "authorization", "key-management",
      "certificate-management", "secret-management",
      "identity-management", "access-management", "audit-logging",
      "backup", "disaster-recovery", "business-continuity",
      "incident-response", "vulnerability-management",
      "patch-management", "configuration-management",
      "change-management", "release-management", "deployment",
      "container-orchestration", "service-discovery", "api-management",
      "content-delivery", "dns", "dhcp", "ntp", "syslog",
      "monitoring-agent", "logging-agent", "security-agent",
      "endpoint-protection", "mobile-device-management",
      "unified-endpoint-management", "email", "chat", "collaboration",
      "document-management", "knowledge-management",
      "project-management", "issue-tracking", "version-control",
      "build-automation", "test-automation", "deployment-automation",
      "infrastructure-as-code", "configuration-as-code",
      "policy-as-code", "security-as-code", "compliance-as-code",
      "governance-as-code", "risk-management", "compliance-management",
      "audit-management", "incident-management", "problem-management",
      "deployment-management", "asset-management", "license-management",
      "vendor-management", "contract-management",
      "service-level-management", "availability-management",
      "capacity-management", "continuity-management" },
    protocol_mapping |->
      { "http", "https", "tcp", "udp", "ssh", "ftp", "smtp", "pop3",
      "imap", "dns", "dhcp", "ntp", "snmp", "ldap", "kerberos", "radius",
      "tacacs+", "syslog", "syslog-tls", "syslog-udp", "syslog-tcp",
      "syslog-tls-tcp", "syslog-tls-udp", "syslog-tls-tcp-udp",
      "syslog-tls-tcp-tls", "syslog-tls-udp-tls",
      "syslog-tls-tcp-udp-tls", "syslog-tls-tcp-tls-udp",
      "syslog-tls-udp-tls-tcp", "syslog-tls-tcp-udp-tls-tcp",
      "syslog-tls-tcp-tls-udp-tcp", "syslog-tls-udp-tls-tcp-udp",
      "syslog-tls-tcp-udp-tls-tcp-udp" },
    security_level_mapping |->
      { "public", "internal", "restricted", "confidential",
      "strictly-confidential", "operational", "important", "critical",
      "mission-critical" },
    relation_type_mapping |->
      { "data-flow", "trust-boundary", "communication", "dependency",
      "inheritance", "composition", "aggregation", "association" } ]

(***************************************************************************)
(* The tables ThreagileValidator.__init__ sets on the validator: the       *)
(* required fields of each collection with the Python type the validator   *)
(* expects, in declaration order, and the rules.                           *)
(***************************************************************************)
validator ==
  [ required_fields |->
      << [ field |-> "title", type |-> "str" ],
         [ field |-> "description", type |-> "str" ],
         [ field |-> "date", type |-> "str" ],
         [ field |-> "author", type |-> "str" ],
         [ field |-> "components", type |-> "list" ],
         [ field |-> "data_assets", type |-> "list" ],
         [ field |-> "trust_boundaries", type |-> "list" ],
         [ field |-> "technical_assets", type |-> "list" ],
         [ field |-> "relations", type |-> "list" ] >>,
    component_fields |->
      << [ field |-> "id", type |-> "str" ],
         [ field |-> "name", type |-> "str" ],
         [ field |-> "type", type |-> "str" ],
         [ field |-> "description", type |-> "str" ],
         [ field |-> "tags", type |-> "list" ],
         [ field |-> "technical_assets", type |-> "list" ],
         [ field |-> "data_assets", type |-> "list" ],
         [ field |-> "trust_boundaries", type |-> "list" ],
         [ field |-> "security_controls", type |-> "list" ],
         [ field |-> "compliance_requirements", type |-> "list" ] >>,
    technical_asset_fields |->
      << [ field |-> "id", type |-> "str" ],
         [ field |-> "name", type |-> "str" ],
         [ field |-> "type", type |-> "str" ],
         [ field |-> "description", type |-> "str" ],
         [ field |-> "usage", type |-> "str" ],
         [ field |-> "owner", type |-> "str" ],
         [ field |-> "confidentiality", type |-> "str" ],
         [ field |-> "integrity", type |-> "str" ],
         [ field |-> "availability", type |-> "str" ],
         [ field |-> "justification_cia_rating", type |-> "str" ],
         [ field |-> "multi_tenant", type |-> "bool" ],
         [ field |-> "redundant", type |-> "bool" ],
         [ field |-> "custom_developed_parts", type |-> "bool" ],
         [ field |-> "encryption", type |-> "str" ],
         [ field |-> "authentication", type |-> "str" ],
         [ field |-> "authorization", type |-> "str" ],
         [ field |-> "justification_authentication", type |-> "str" ],
         [ field |-> "justification_authorization", type |-> "str" ],
         [ field |-> "security_controls", type |-> "list" ],
         [ field |-> "compliance_requirements", type |-> "list" ],
         [ field |-> "vulnerabilities", type |-> "list" ],
         [ field |-> "threats", type |-> "list" ] >>,
    data_asset_fields |->
      << [ field |-> "id", type |-> "str" ],
         [ field |-> "name", type |-> "str" ],
         [ field |-> "description", type |-> "str" ],
         [ field |-> "usage", type |-> "str" ],
         [ field |-> "owner", type |-> "str" ],
         [ field |-> "confidentiality", type |-> "str" ],
         [ field |-> "integrity", type |-> "str" ],
         [ field |-> "availability", type |-> "str" ],
         [ field |-> "justification_cia_rating", type |-> "str" ],
         [ field |-> "storage", type |-> "str" ],
         [ field |-> "format", type |-> "str" ],
         [ field |-> "origin", type |-> "str" ],
         [ field |-> "quantity", type |-> "str" ],
         [ field |-> "tags", type |-> "list" ],
         [ field |-> "security_controls", type |-> "list" ],
         [ field |-> "compliance_requirements", type |-> "list" ],
         [ field |-> "data_classification", type |-> "str" ],
         [ field |-> "retention_period", type |-> "str" ],
         [ field |-> "backup_frequency", type |-> "str" ] >>,
    trust_boundary_fields |->
      << [ field |-> "id", type |-> "str" ],
         [ field |-> "name", type |-> "str" ],
         [ field |-> "description", type |-> "str" ],
         [ field |-> "type", type |-> "str" ],
         [ field |-> "components", type |-> "list" ],
         [ field |-> "technical_assets", type |-> "list" ],
         [ field |-> "data_assets", type |-> "list" ],
         [ field |-> "security_controls", type |-> "list" ],
         [ field |-> "compliance_requirements", type |-> "list" ] >>,
    relation_fields |->
      << [ field |-> "id", type |-> "str" ],
         [ field |-> "name", type |-> "str" ],
         [ field |-> "description", type |-> "str" ],
         [ field |-> "type", type |-> "str" ],
         [ field |-> "source", type |-> "str" ],
         [ field |-> "target", type |-> "str" ],
         [ field |-> "protocol", type |-> "str" ],
         [ field |-> "authentication", type |-> "str" ],
         [ field |-> "authorization", type |-> "str" ],
         [ field |-> "encryption", type |-> "str" ],
         [ field |-> "data_assets", type |-> "list" ],
         [ field |-> "tags", type |-> "list" ],
         [ field |-> "security_controls", type |-> "list" ],
         [ field |-> "compliance_requirements", type |-> "list" ] >>,
    validation_rules |->
      [ min_description_length |-> 10,
      max_description_length |-> 500,
      min_name_length |-> 3,
      max_name_length |-> 100 ],
    valid_security_levels |->
      [ confidentiality |-> { "confidential", "internal", "public", "restricted", "strictly-confidential" },
      integrity |-> { "critical", "important", "mission-critical", "operational" },
      availability |-> { "critical", "important", "mission-critical", "operational" } ],
    threagile_compliance_rules |->
      [ required_trust_boundaries |-> TRUE,
      required_data_assets |-> TRUE,
      required_technical_assets |-> TRUE,
      unique_ids |-> TRUE,
      valid_relationships |-> TRUE,
      required_security_controls |-> TRUE,
      required_compliance_requirements |-> TRUE,
      required_cia_ratings |-> TRUE,
      required_justifications |-> TRUE ] ]

valid_component_types ==
  { "access-management", "api-gateway", "api-management",
    "asset-management", "audit-logging", "audit-management",
    "authentication", "authorization", "availability-management",
    "backup", "build-automation", "business-continuity",
    "capacity-management", "certificate-management",
    "change-management", "chat", "collaboration", "compliance-as-code",
    "compliance-management", "configuration-as-code",
    "configuration-management", "container-orchestration",
    "content-delivery", "continuity-management", "contract-management",
    "database", "deployment", "deployment-automation",
    "deployment-management", "desktop-app", "dhcp",
    "disaster-recovery", "dns", "document-management", "email",
    "endpoint-protection", "file-storage", "firewall", "gateway",
    "governance-as-code", "identity-management", "ids",
    "incident-management", "incident-response",
    "infrastructure-as-code", "ips", "issue-tracking",
    "key-management", "knowledge-management", "license-management",
    "load-balancer", "logging", "logging-agent", "message-queue",
    "mobile-app", "mobile-device-management", "monitoring",
    "monitoring-agent", "ntp", "patch-management", "policy-as-code",
    "problem-management", "project-management", "release-management",
    "reverse-proxy", "risk-management", "secret-management",
    "security-agent", "security-as-code", "security-management",
    "service", "service-discovery", "service-level-management",
    "service-mesh", "syslog", "test-automation",
    "unified-endpoint-management", "vendor-management",
    "version-control", "vpn", "vulnerability-management", "waf",
    "web-application" }

valid_asset_types ==
  { "access-management", "api-gateway", "api-management",
    "application", "asset-management", "audit-logging",
    "audit-management", "authentication", "authorization",
    "availability-management", "backup", "build-automation",
    "business-continuity", "capacity-management",
    "certificate-management", "change-management", "chat",
    "collaboration", "compliance-as-code", "compliance-management",
    "configuration-as-code", "configuration-management",
    "container-orchestration", "content-delivery",
    "continuity-management", "contract-management", "database",
    "deployment", "deployment-automation", "deployment-management",
    "dhcp", "disaster-recovery", "dns", "document-management", "email",
    "endpoint-protection", "file-storage", "firewall", "gateway",
    "governance-as-code", "identity-management", "ids",
    "incident-management", "incident-response",
    "infrastructure-as-code", "ips", "issue-tracking",
    "key-management", "knowledge-management", "license-management",
    "load-balancer", "logging", "logging-agent", "message-queue",
    "mobile-device-management", "monitoring", "monitoring-agent",
    "ntp", "patch-management", "policy-as-code", "problem-management",
    "project-management", "release-management", "reverse-proxy",
    "risk-management", "secret-management", "security-agent",
    "security-as-code", "security-management", "service",
    "service-discovery", "service-level-management", "service-mesh",
    "syslog", "test-automation", "unified-endpoint-management",
    "vendor-management", "version-control", "vpn",
    "vulnerability-management", "waf" }

valid_relation_types ==
  { "aggregation", "association", "communication", "composition",
    "data-flow", "dependency", "inheritance", "trust-boundary" }

valid_boundary_types ==
  { "legal", "logical", "network", "organizational", "physical",
    "regulatory" }

(***************************************************************************)
(* Values shared by the components.                                        *)
(***************************************************************************)
\* Python's None where a text is expected
None == << "<None>" >>

\* 1.0 as a component score: the weights 0.4, 0.3, 0.2, 0.1 and the
\* divisors 3..8 (the lengths of the styles lists) all divide it
ScoreUnit == 840 * 10

TypeNames == {COMPONENT_TYPES[i].name : i \in 1..Len(COMPONENT_TYPES)}

\* component_types[t]
TypeInfo(t) ==
  COMPONENT_TYPES[CHOOSE i \in 1..Len(COMPONENT_TYPES) : COMPONENT_TYPES[i].name = t]

\* advanced_patterns[t]['patterns']
PatternsOf(t) ==
  advanced_patterns[CHOOSE i \in 1..Len(advanced_patterns) :
                      advanced_patterns[i].name = t].patterns

\* `k in t` for a type name t; a name outside the table (a composite
\* archetype name is in it) holds no keyword
TypeContains(k, t) ==
  /\ t \in DOMAIN type_chars
  /\ Contains(type_chars[k], type_chars[t])

(***************************************************************************)
(* ComponentDetector, first pass.                                          *)
(***************************************************************************)
is_component_cell(cell) ==
  /\ Get(cell, "edge", "0") = "0"
  /\ HasKey(cell, "value")
  /\ Get(cell, "id", None) \notin { <<"0">>, <<"1">> }

check_attributes_consistency(cell, type_info) ==
  \E style \in {Lower(Get(cell, "style", << >>))} :
    LET has_auth == \/ Contains(<<"a","u","t","h">>, style)
                    \/ Contains(<<"l","o","g","i","n">>, style)
        has_authz == \/ Contains(<<"r","o","l","e">>, style)
                     \/ Contains(<<"p","e","r","m","i","s","s","i","o","n">>, style)
    IN  /\ ~(type_info.authentication = "required" /\ ~has_auth)
        /\ ~(type_info.authorization = "required" /\ ~has_authz)

\* the score of one type for a cell whose lowered label is value and whose
\* lowered style is style, in units of 1/ScoreUnit
type_score(cell, value, style, info) ==
  LET n == Len(info.styles)
      style_score ==
        Let([style_matches \in {Cardinality({j \in 1..n : Contains(info.styles[j], style)})} |->
              IF style_matches > 0 THEN (4 * 840 * style_matches) \div n ELSE 0])
      keyword_score ==
        Let([keyword_matches \in {Cardinality({j \in 1..n : Contains(info.styles[j], value)})} |->
              IF keyword_matches > 0 THEN (3 * 840 * keyword_matches) \div n ELSE 0])
  IN  style_score
    + keyword_score
    + (IF check_attributes_consistency(cell, info) THEN 2 * 840 ELSE 0)
    + (IF AnyPattern(PatternsOf(info.name), value) THEN 840 ELSE 0)

\* scores[i] is the score of the i-th declared type
calculate_component_scores(cell) ==
  Let([value \in {Lower(Get(cell, "value", << >>))} |->
  Let([style \in {Lower(Get(cell, "style", << >>))} |->
    List([i \in 1..Len(COMPONENT_TYPES) |->
            type_score(cell, value, style, COMPONENT_TYPES[i])])])])

\* max(scores.items(), key=score): the first declared type with the
\* largest score
select_best_type(scores) ==
  CHOOSE i \in 1..Len(scores) :
    /\ \A j \in 1..Len(scores) : scores[j] <= scores[i]
    /\ \A j \in 1..(i - 1) : scores[j] < scores[i]

create_component(cell) ==
  Let([scores \in {calculate_component_scores(cell)} |->
  Let([best \in {select_best_type(scores)} |->
    LET type_info == COMPONENT_TYPES[best]
    IN  [ id |-> Get(cell, "id", << >>),
          name |-> Get(cell, "value", << >>),
          type |-> type_info.name,
          confidence_score |-> scores[best],
          authentication |-> type_info.authentication,
          authorization |-> type_info.authorization,
          data_sensitivity |-> type_info.data_sensitivity,
          style |-> Get(cell, "style", << >>),
          value |-> Get(cell, "value", << >>) ]])])

(***************************************************************************)
(* ComponentDetector, detection context and second pass.                   *)
(***************************************************************************)
\* the ids appended under parent p, in order (component_hierarchy[p]);
\* with truthy = TRUE an empty or None parent is skipped (`if parent_id:`)
RECURSIVE children_of(_, _, _)
children_of(components, p, truthy) ==
  IF components = << >> THEN << >>
  ELSE LET c == Head(components)
           rest == children_of(Tail(components), p, truthy)
       IN  IF /\ HasKey(c, "parent")
              /\ c.parent = p
              /\ (truthy => (p # << >> /\ p # None))
             THEN <<Get(c, "id", << >>)>> \o rest
             ELSE rest

\* _update_detection_context: the hierarchy it builds, as a function of
\* the parent id, and the security-context index
update_detection_context(components) ==
  [ component_hierarchy |->
      [p \in {c.parent : c \in {x \in Range(components) : HasKey(x, "parent")}}
         |-> children_of(components, p, FALSE)],
    security_context |->
      [i \in {Get(c, "id", << >>) : c \in Range(components)} |->
         LET c == components[CHOOSE k \in 1..Len(components) :
                     /\ Get(components[k], "id", << >>) = i
                     /\ \A m \in (k + 1)..Len(components) :
                          Get(components[m], "id", << >>) # i]
         IN  [ authentication |-> Get(c, "authentication", "none"),
               authorization |-> Get(c, "authorization", "none"),
               data_sensitivity |-> Get(c, "data_sensitivity", "public") ]] ]

\* context.connected_components as _improve_component_detection sets it:
\* the comprehension ranges over the type table, whose entries have
\* neither an 'id' nor a 'type' key
connected_components(context, comp_id) ==
  LET kids == Get(context.component_hierarchy, comp_id, << >>)
  IN  { Get(info, "type", "") :
          info \in { x \in Range(COMPONENT_TYPES) :
                       Get(x, "id", << >>) \in Range(kids) } }

\* any(rule(ctx) for rule in advanced_patterns[t]['context_rules'])
context_rules(t, connected) ==
  CASE t = "database" -> "api" \in connected \/ "web-application" \in connected
    [] t = "api" -> "web-application" \in connected \/ "database" \in connected
    [] t = "web-application" -> "api" \in connected \/ "cdn" \in connected
    [] t = "cloud-service" ->
         \/ \E s \in {"api", "database", "serverless"} : s \in connected
         \/ "monitoring" \in connected
    [] t = "serverless" -> "cloud-service" \in connected \/ "api" \in connected
    [] t = "microservice" -> "api" \in connected \/ "message-queue" \in connected
    [] t = "load-balancer" ->
         Cardinality(connected) > 2 \/ "web-application" \in connected
    [] t = "cache" -> "database" \in connected \/ "api" \in connected
    [] t = "message-queue" ->
         "microservice" \in connected \/ "serverless" \in connected
    [] t = "process" -> "database" \in connected \/ "message-queue" \in connected
    [] t = "gateway" -> "api" \in connected \/ "web-application" \in connected
    [] t = "cdn" -> "web-application" \in connected \/ "cloud-service" \in connected
    [] t = "monitoring" ->
         Cardinality(connected) > 1 \/ "cloud-service" \in connected

Min(a, b) == IF a <= b THEN a ELSE b
Max(a, b) == IF a >= b THEN a ELSE b

improve_component_detection(component, context) ==
  LET comp_type == Get(component, "type", "")
      comp_id == Get(component, "id", << >>)
      connected == connected_components(context, comp_id)
      value == Lower(Get(component, "value", << >>))
      pattern_matches == AnyPattern(PatternsOf(comp_type), value)
      context_matches == context_rules(comp_type, connected)
      score == Get(component, "confidence_score", 0)
  IN  IF comp_type \notin TypeNames THEN component
      ELSE IF pattern_matches /\ context_matches
        THEN [component EXCEPT !.confidence_score = Min(ScoreUnit, score + 2 * 840)]
        ELSE [component EXCEPT !.confidence_score = Max(0, score - 840)]

(***************************************************************************)
(* utils/validators.py: validate_and_correct_component.                    *)
(***************************************************************************)
\* `not v` for a text that may be missing
Falsy(v) == v = << >> \/ v = None

\* d[k] = v on a dict, adding the key when it is absent
Put(d, k, v) == (k :> v) @@ d

\* f"{prefix}{hash(str(x))}": Python salts str hashes per process, so the
\* digits depend on the process's hash seed and on the text hashed; the
\* text is rendered by what identifies the entity in the model
temp_id(prefix, seed, rendering) == prefix \o seed \o <<"_">> \o rendering

\* _detect_component_type: the first declared type one of whose keywords
\* is in the lowered value, else process
detect_component_type(value) ==
  Let([v \in {Lower(value)} |->
  Let([hits \in {{i \in 1..Len(COMPONENT_TYPES) :
         \E j \in 1..Len(COMPONENT_TYPES[i].styles) :
           Contains(COMPONENT_TYPES[i].styles[j], v)}} |->
        IF hits # {}
          THEN COMPONENT_TYPES[CHOOSE i \in hits : \A j \in hits : i <= j].name
          ELSE "process"])])

\* one correction of an entity under validation: when bad, the field is
\* set to value and a warning about it is recorded
Correct(result, bad, field, value) ==
  IF bad
    THEN [ result EXCEPT !.warnings = Append(@, field),
                         !.corrected_data = Put(@, field, value) ]
    ELSE result

\* each test reads a field that no earlier correction wrote
validate_and_correct_component(component, seed) ==
  Let([r0 \in {[ is_valid |-> TRUE, warnings |-> << >>, corrected_data |-> component ]} |->
  Let([r1 \in {Correct(r0, Falsy(Get(component, "id", None)), "id",
              temp_id(<<"t","e","m","p","_">>, seed,
                      Get(component, "value", << >>) \o <<"|">>
                        \o Get(component, "style", << >>)))} |->
  Let([r2 \in {Correct(r1, Falsy(Get(component, "name", None)), "name",
              <<"U","n","n","a","m","e","d"," ",
                "C","o","m","p","o","n","e","n","t">>)} |->
  Let([r3 \in {Correct(r2, Get(component, "type", "") \notin TypeNames, "type",
              detect_component_type(Get(component, "value", << >>)))} |->
  Let([type_info \in {TypeInfo(r3.corrected_data.type)} |->
    Correct(
      Correct(
        Correct(r3,
                Get(component, "authentication", "") \notin {"required", "none"},
                "authentication", type_info.authentication),
        Get(component, "authorization", "") \notin {"required", "none"},
        "authorization", type_info.authorization),
      Get(component, "data_sensitivity", "")
        \notin {"public", "internal", "confidential", "restricted"},
      "data_sensitivity", type_info.data_sensitivity)])])])])])

(***************************************************************************)
(* CompositeComponentManager.                                              *)
(***************************************************************************)
\* components_by_id.get(i): the last component of the list with id i
by_id(components, i) ==
  components[CHOOSE k \in 1..Len(components) :
               /\ Get(components[k], "id", None) = i
               /\ \A m \in (k + 1)..Len(components) :
                    Get(components[m], "id", None) # i]

has_id(components, i) ==
  \E k \in 1..Len(components) : Get(components[k], "id", None) = i

\* the naming patterns of an archetype match the component's label; the
\* call of re.search needs the name re
is_potential_composite(component, pattern_info) ==
  AnyPattern(pattern_info.naming_patterns, Lower(Get(component, "value", << >>)))

\* _build_component_hierarchy followed by _find_subcomponents: the
\* components registered under the parent's id, in list order
find_subcomponents(parent, components) ==
  Let([kids \in {children_of(components, Get(parent, "id", << >>), TRUE)} |->
    List([k \in 1..Len(kids) |-> by_id(components, kids[k])])])

validate_composite_structure(subcomponents, pattern_info) ==
  \E types \in {{Get(c, "type", "") : c \in Range(subcomponents)}} :
    LET found_required == types \cap pattern_info.required_components
        found_optional == types \cap pattern_info.optional_components
    IN  /\ pattern_info.required_components \subseteq found_required
        /\ Cardinality(found_optional) > 0

\* the loop of _determine_security_context on the running data_sensitivity
RECURSIVE fold_sensitivity(_, _)
fold_sensitivity(subcomponents, acc) ==
  IF subcomponents = << >> THEN acc
  ELSE LET s == Get(Head(subcomponents), "data_sensitivity", "public")
           next == IF s = "restricted" THEN "restricted"
                   ELSE IF s = "confidential" /\ acc = "public" THEN "confidential"
                   ELSE acc
       IN  fold_sensitivity(Tail(subcomponents), next)

\* a security context read off the first subcomponent alone
determine_security_context_of_first(subcomponents) ==
  [ authentication |->
      IF Get(Head(subcomponents), "authentication", None) = "required"
        THEN "required" ELSE "none",
    authorization |->
      IF Get(Head(subcomponents), "authorization", None) = "required"
        THEN "required" ELSE "none",
    data_sensitivity |-> fold_sensitivity(subcomponents, "public") ]

determine_security_context(subcomponents) ==
  [ authentication |->
      IF \E c \in Range(subcomponents) : Get(c, "authentication", None) = "required"
        THEN "required" ELSE "none",
    authorization |->
      IF \E c \in Range(subcomponents) : Get(c, "authorization", None) = "required"
        THEN "required" ELSE "none",
    data_sensitivity |-> fold_sensitivity(subcomponents, "public") ]

create_composite_component(parent, subcomponents, comp_type) ==
  [ id |-> Get(parent, "id", << >>),
    name |-> Get(parent, "value", << >>),
    type |-> comp_type,
    subcomponents |-> subcomponents,
    parent |-> Get(parent, "parent", None),
    security_context |-> determine_security_context(subcomponents) ]

\* _detect_composite_type: the composites of one archetype, in list order
RECURSIVE detect_composite_type(_, _, _)
detect_composite_type(todo, components, pattern_info) ==
  IF todo = << >> THEN << >>
  ELSE LET c == Head(todo)
           rest == detect_composite_type(Tail(todo), components, pattern_info)
       IN  IF is_potential_composite(c, pattern_info)
             THEN Let([subs \in {find_subcomponents(c, components)} |->
                    IF validate_composite_structure(subs, pattern_info)
                      THEN <<create_composite_component(c, subs, pattern_info.name)>>
                             \o rest
                      ELSE rest])
             ELSE rest

\* detect_composite_components.  composite_component.py calls re.search
\* but has no `import re`: unless the name is bound in the module's
\* namespace (bound), the first _is_potential_composite call raises
\* NameError, that is, on every non-empty list.
detect_composite_components(components, bound) ==
  IF components # << >> /\ ~bound
    THEN [ raised |-> "NameError", value |-> << >> ]
    ELSE [ raised |-> "",
           value |->
                detect_composite_type(components, components, composite_patterns[1])
             \o detect_composite_type(components, components, composite_patterns[2])
             \o detect_composite_type(components, components, composite_patterns[3]) ]

(***************************************************************************)
(* ComponentDetector._merge_components and detect_components.              *)
(***************************************************************************)
\* an entry that keeps every field of the composite but its archetype
composite_entry_untyped(composite) ==
  [ id |-> composite.id,
    name |-> composite.name,
    type |-> "composite",
    is_composite |-> TRUE,
    subcomponents |-> composite.subcomponents,
    parent |-> composite.parent,
    authentication |-> composite.security_context.authentication,
    authorization |-> composite.security_context.authorization,
    data_sensitivity |-> composite.security_context.data_sensitivity ]

composite_entry(composite) ==
  [ id |-> composite.id,
    name |-> composite.name,
    type |-> composite.type,
    is_composite |-> TRUE,
    subcomponents |-> composite.subcomponents,
    parent |-> composite.parent,
    authentication |-> composite.security_context.authentication,
    authorization |-> composite.security_context.authorization,
    data_sensitivity |-> composite.security_context.data_sensitivity ]

merge_components(simple_components, composite_components) ==
  Let([used_component_ids \in {UNION { {Get(s, "id", << >>) : s \in Range(c.subcomponents)} :
              c \in Range(composite_components) }} |->
        SelectSeq(simple_components,
                  LAMBDA c : Get(c, "id", << >>) \notin used_component_ids)
        \o [k \in 1..Len(composite_components) |->
              composite_entry(composite_components[k])]])

\* the first pass of detect_components
first_pass(cells) ==
  Let([comp_cells \in {SelectSeq(cells, is_component_cell)} |->
    List([k \in 1..Len(comp_cells) |-> create_component(comp_cells[k])])])

\* the second pass: improve with the context, then validate and correct
second_pass(components, seed) ==
  Let([context \in {update_detection_context(components)} |->
    List([k \in 1..Len(components) |->
            validate_and_correct_component(
              improve_component_detection(components[k], context),
              seed).corrected_data])])

detect_components(cells, seed, bound) ==
  Let([simple_components \in {second_pass(first_pass(cells), seed)} |->
  Let([composites \in {detect_composite_components(simple_components, bound)} |->
    IF composites.raised # ""
      THEN [ raised |-> composites.raised, value |-> << >> ]
      ELSE [ raised |-> "",
             value |-> merge_components(simple_components, composites.value) ]])])

(***************************************************************************)
(* FlowDetector.                                                           *)
(***************************************************************************)
ProtocolNames ==
  {COMMUNICATION_PROTOCOLS[i].name : i \in 1..Len(COMMUNICATION_PROTOCOLS)}

\* protocols[p]
ProtocolInfo(p) ==
  COMMUNICATION_PROTOCOLS[CHOOSE i \in 1..Len(COMMUNICATION_PROTOCOLS) :
                            COMMUNICATION_PROTOCOLS[i].name = p]

\* _is_flow_cell asking for a label as well
is_flow_cell_labelled(cell) ==
  /\ Get(cell, "edge", "0") = "1"
  /\ HasKey(cell, "source")
  /\ HasKey(cell, "target")
  /\ Get(cell, "value", << >>) # << >>

is_flow_cell(cell) ==
  /\ Get(cell, "edge", "0") = "1"
  /\ HasKey(cell, "source")
  /\ HasKey(cell, "target")

\* the keys of utils.diagram_parser.COMMUNICATION_PROTOCOLS, in the order
\* of the dict, with their spelling
protocol_chars ==
  << [ name |-> "http", chars |-> <<"h","t","t","p">> ],
     [ name |-> "https", chars |-> <<"h","t","t","p","s">> ],
     [ name |-> "ws", chars |-> <<"w","s">> ],
     [ name |-> "wss", chars |-> <<"w","s","s">> ],
     [ name |-> "grpc", chars |-> <<"g","r","p","c">> ],
     [ name |-> "tcp", chars |-> <<"t","c","p">> ],
     [ name |-> "udp", chars |-> <<"u","d","p">> ],
     [ name |-> "mqtt", chars |-> <<"m","q","t","t">> ],
     [ name |-> "amqp", chars |-> <<"a","m","q","p">> ],
     [ name |-> "kafka", chars |-> <<"k","a","f","k","a">> ] >>

\* the type table with the api rule asked first
protocol_by_types_api_first(source_type, target_type) ==
  LET either(k) == TypeContains(k, source_type) \/ TypeContains(k, target_type)
  IN  IF either("api") THEN "https"
      ELSE IF either("database") THEN "tcp"
      ELSE IF either("message-queue") THEN "amqp"
      ELSE IF either("cache") THEN "tcp"
      ELSE IF either("web-application") THEN "https"
      ELSE ""

\* the type table shared by FlowDetector._detect_protocol and
\* _correct_protocol; "" when no rule applies
protocol_by_types(source_type, target_type) ==
  LET either(k) == TypeContains(k, source_type) \/ TypeContains(k, target_type)
  IN  IF either("database") THEN "tcp"
      ELSE IF either("api") THEN "https"
      ELSE IF either("message-queue") THEN "amqp"
      ELSE IF either("cache") THEN "tcp"
      ELSE IF either("web-application") THEN "https"
      ELSE ""

\* FlowDetector._detect_protocol
detect_protocol(source, target, cell) ==
  Let([value \in {Lower(Get(cell, "value", << >>))} |->
  Let([style \in {Lower(Get(cell, "style", << >>))} |->
  Let([hits \in {{i \in 1..Len(COMMUNICATION_PROTOCOLS) :
         \E j \in 1..Len(COMMUNICATION_PROTOCOLS[i].patterns) :
           Contains(COMMUNICATION_PROTOCOLS[i].patterns[j], value)}} |->
  Let([by_types \in {protocol_by_types(Get(source, "type", ""), Get(target, "type", ""))} |->
        IF hits # {}
          THEN COMMUNICATION_PROTOCOLS[CHOOSE i \in hits : \A j \in hits : i <= j].name
        ELSE IF by_types # "" THEN by_types
        ELSE IF Contains(<<"d","a","s","h","e","d">>, style) THEN "udp"
        ELSE IF Contains(<<"d","o","t","t","e","d">>, style) THEN "ws"
        ELSE "tcp"])])])])

\* str.strip()
RECURSIVE strip(_)
strip(s) ==
  IF s # << >> /\ IsSpace(Head(s)) THEN strip(Tail(s))
  ELSE IF s # << >> /\ IsSpace(s[Len(s)]) THEN strip(SubSeq(s, 1, Len(s) - 1))
  ELSE s

\* the length of the longest run from offset i whose characters satisfy
\* space (TRUE: white space, FALSE: anything but a full stop)
RECURSIVE run_length(_, _, _)
run_length(s, i, space) ==
  IF i < Len(s) /\ (IF space THEN IsSpace(s[i + 1]) ELSE s[i + 1] # ".")
    THEN 1 + run_length(s, i + 1, space)
    ELSE 0

\* the groups of re.finditer(r'(?i)if\s+([^\.]+)', s) from offset i, for
\* s and its lowered form
RECURSIVE if_clauses(_, _, _)
if_clauses(s, lowered, i) ==
  IF i + 2 > Len(s) THEN << >>
  ELSE IF ~StartsAt(<<"i","f">>, lowered, i) THEN if_clauses(s, lowered, i + 1)
  ELSE Let([w \in {run_length(s, i + 2, TRUE)} |->
       Let([r \in {run_length(s, i + 2 + w, FALSE)} |->
         IF w >= 1 /\ r >= 1
           THEN <<strip(SubSeq(s, i + 3 + w, i + 2 + w + r))>>
                  \o if_clauses(s, lowered, i + 2 + w + r)
         ELSE IF w >= 2
           THEN << << >> >> \o if_clauses(s, lowered, i + 2 + w)
         ELSE if_clauses(s, lowered, i + 1)])])

\* FlowDetector._extract_conditions; the names of the condition categories
\* are spelled out as texts beside the extracted clauses
extract_conditions(value) ==
  Let([matched \in {SelectSeq(conditional_patterns, LAMBDA c : re_search(c.pattern, value))} |->
  Let([clauses \in {IF Contains(<<"i","f">>, value) THEN if_clauses(value, value, 0) ELSE << >>} |->
           [k \in 1..Len(matched) |-> matched[k].name]
        \o [k \in 1..Len(clauses) |-> Join(clauses[k])]])])

\* _update_security_context without the update from the components
update_security_context_of_protocol(protocol, source, target) ==
  LET known == protocol \in ProtocolNames
  IN  [ encryption |-> IF known THEN PyBool(ProtocolInfo(protocol).encryption)
                                 ELSE PyStr("none"),
        authentication |->
          IF known THEN ProtocolInfo(protocol).authentication ELSE "none",
        authorization |->
          IF known THEN ProtocolInfo(protocol).authorization ELSE "none" ]

\* FlowDetector._update_security_context
update_security_context(protocol, source, target) ==
  LET known == protocol \in ProtocolNames
      either(k) == Get(source, k, "") = "required" \/ Get(target, k, "") = "required"
  IN  [ encryption |-> IF known THEN PyBool(ProtocolInfo(protocol).encryption)
                                 ELSE PyStr("none"),
        authentication |->
          IF either("authentication") THEN "required"
          ELSE IF known THEN ProtocolInfo(protocol).authentication ELSE "none",
        authorization |->
          IF either("authorization") THEN "required"
          ELSE IF known THEN ProtocolInfo(protocol).authorization ELSE "none" ]

\* FlowDetector._create_flow; only called when both ends are known
create_flow(cell, components) ==
  Let([source \in {by_id(components, cell.source)} |->
  Let([target \in {by_id(components, cell.target)} |->
  Let([value \in {Lower(Get(cell, "value", << >>))} |->
  Let([style \in {Lower(Get(cell, "style", << >>))} |->
  Let([protocol \in {detect_protocol(source, target, cell)} |->
  Let([conditional \in {\E k \in 1..Len(conditional_patterns) :
        re_search(conditional_patterns[k].pattern, value)} |->
        [ id |-> Get(cell, "id", << >>),
          source |-> cell.source,
          target |-> cell.target,
          protocol |-> protocol,
          bidirectional |->
            \/ \E k \in 1..Len(bidirectional_patterns) :
                 re_search(bidirectional_patterns[k].pattern, value)
            \/ Contains(<<"d","o","u","b","l","e">>, style),
          conditional |-> conditional,
          conditions |-> IF conditional THEN extract_conditions(value) ELSE << >>,
          security |-> update_security_context(protocol, source, target),
          value |-> Get(cell, "value", << >>) ]])])])])])])

\* a cell for which _create_flow returns a flow
resolves(cell, components) ==
  /\ has_id(components, Get(cell, "source", << >>))
  /\ has_id(components, Get(cell, "target", << >>))

is_protocol_compatible(protocol, source_type, target_type) ==
  LET compatible_types == ProtocolInfo(protocol).compatible_types
  IN  \/ source_type \in compatible_types
      \/ target_type \in compatible_types
      \/ compatible_types = {}

\* FlowDetector._improve_flow_detection, for a flow whose ends are known
improve_flow_detection(flow, components) ==
  Let([source_type \in {Get(by_id(components, flow.source), "type", "")} |->
  Let([target_type \in {Get(by_id(components, flow.target), "type", "")} |->
  Let([corrected \in {protocol_by_types(source_type, target_type)} |->
    IF /\ flow.protocol \in ProtocolNames
       /\ ~is_protocol_compatible(flow.protocol, source_type, target_type)
       /\ corrected # ""
      THEN [flow EXCEPT !.protocol = corrected]
      ELSE flow])])])

\* validators._detect_protocol
validators_detect_protocol(source, target) ==
  LET source_type == Get(source, "type", "")
      target_type == Get(target, "type", "")
      either(k) == TypeContains(k, source_type) \/ TypeContains(k, target_type)
  IN  IF either("database") THEN "tcp"
      ELSE IF either("api") THEN "https"
      ELSE IF either("message-queue") THEN "amqp"
      ELSE IF either("cache") THEN "tcp"
      ELSE "https"

\* validators.validate_and_correct_flow(flow, components_by_id, protocols);
\* next(iter({})) raises StopIteration when there is no component.  Each
\* test but the protocol's reads a field that no earlier correction wrote.
validate_and_correct_flow(flow, components) ==
  Let([bad_source \in {Falsy(Get(flow, "source", None))
                      \/ ~has_id(components, Get(flow, "source", None))} |->
  Let([bad_target \in {Falsy(Get(flow, "target", None))
                      \/ ~has_id(components, Get(flow, "target", None))} |->
    IF (bad_source \/ bad_target) /\ components = << >>
      THEN [ raised |-> "StopIteration", is_valid |-> FALSE,
             warnings |-> << >>, corrected_data |-> flow ]
      ELSE
        Let([r0 \in {[ raised |-> "", is_valid |-> TRUE, warnings |-> << >>,
              corrected_data |-> flow ]} |->
        Let([r2 \in {Correct(Correct(r0, bad_source, "source", Get(components[1], "id", None)),
                    bad_target, "target", Get(components[1], "id", None))} |->
        Let([r3 \in {Correct(r2, Get(flow, "protocol", "") \notin ProtocolNames, "protocol",
                    validators_detect_protocol(
                      by_id(components, r2.corrected_data.source),
                      by_id(components, r2.corrected_data.target)))} |->
        Let([protocol_info \in {ProtocolInfo(r3.corrected_data.protocol)} |->
          Correct(
            Correct(
              Correct(r3,
                      Get(flow, "authentication", "") \notin {"required", "none"},
                      "authentication", protocol_info.authentication),
              Get(flow, "authorization", "") \notin {"required", "none"},
              "authorization", protocol_info.authorization),
            Get(flow, "encryption", PyStr("")).py # "bool",
            "encryption", PyBool(protocol_info.encryption))])])])])])])

\* FlowDetector.detect_flows
detect_flows(cells, components) ==
  Let([flow_cells \in {SelectSeq(cells, LAMBDA c : is_flow_cell(c) /\ resolves(c, components))} |->
        List([k \in 1..Len(flow_cells) |->
                validate_and_correct_flow(
                  improve_flow_detection(create_flow(flow_cells[k], components),
                                         components),
                  components).corrected_data])])

\* DiagramParser._determine_protocol
determine_protocol(style, value, source, target) ==
  Let([style_lower \in {Lower(style)} |->
  Let([value_lower \in {Lower(value)} |->
  Let([hits \in {{i \in 1..Len(protocol_chars) :
         \/ Contains(protocol_chars[i].chars, style_lower)
         \/ Contains(protocol_chars[i].chars, value_lower)}} |->
  Let([source_type \in {Get(source, "type", "process")} |->
  Let([target_type \in {Get(target, "type", "process")} |->
    LET either(k) == TypeContains(k, source_type) \/ TypeContains(k, target_type)
    IN  IF hits # {}
          THEN protocol_chars[CHOOSE i \in hits : \A j \in hits : i <= j].name
        ELSE IF either("database") THEN "tcp"
        ELSE IF either("api") THEN "https"
        ELSE IF either("message-queue") THEN "amqp"
        ELSE IF either("cache") THEN "tcp"
        ELSE "http"])])])])])

(***************************************************************************)
(* Risk scores: exact fractions <<numerator, denominator>> in lowest       *)
(* terms.                                                                  *)
(***************************************************************************)
RECURSIVE GCD(_, _)
GCD(a, b) == IF b = 0 THEN a ELSE GCD(b, a % b)

Frac(n, d) == IF n = 0 THEN <<0, 1>> ELSE <<n \div GCD(n, d), d \div GCD(n, d)>>

FracMul(a, b) == Frac(a[1] * b[1], a[2] * b[2])

FracLeq(a, b) == a[1] * b[2] <= b[1] * a[2]

FracMin(a, b) == IF FracLeq(a, b) THEN a ELSE b

RECURSIVE SeqSum(_)
SeqSum(s) == IF s = << >> THEN 0 ELSE Head(s) + SeqSum(Tail(s))

(***************************************************************************)
(* ThreatDetector.  list(set) is kept as the set: the order of the         *)
(* affected ids in the lists follows the process's hash seed.              *)
(***************************************************************************)
\* the first declared threat type one of whose patterns matches, "" if none
detect_threat_type(cell) ==
  Let([value \in {Lower(Get(cell, "value", << >>))} |->
  Let([hits \in {{i \in 1..Len(threat_patterns) : AnyPattern(threat_patterns[i].patterns, value)}} |->
        IF hits # {}
          THEN threat_patterns[CHOOSE i \in hits : \A j \in hits : i <= j].name
          ELSE ""])])

\* _is_threat_cell with the patterns searched in the style
is_threat_cell_by_style(cell) ==
  /\ Get(cell, "edge", "0") = "0"
  /\ HasKey(cell, "value")
  /\ Get(cell, "id", None) \notin { <<"0">>, <<"1">> }
  /\ \E i \in 1..Len(threat_patterns) :
       /\ AnyPattern(threat_patterns[i].patterns, Lower(Get(cell, "style", << >>)))
       /\ AnyPattern(threat_patterns[i].patterns, Lower(Get(cell, "value", << >>)))

is_threat_cell(cell) ==
  /\ Get(cell, "edge", "0") = "0"
  /\ HasKey(cell, "value")
  /\ Get(cell, "id", None) \notin { <<"0">>, <<"1">> }
  /\ \E i \in 1..Len(threat_patterns) :
       AnyPattern(threat_patterns[i].patterns, Lower(Get(cell, "value", << >>)))

detect_affected_components(cell, components) ==
  Let([value \in {Lower(Get(cell, "value", << >>))} |->
    { i \in {Get(c, "id", None) : c \in Range(components)} :
        \E c \in {by_id(components, i)} :
          \/ Contains(Lower(Get(c, "value", << >>)), value)
          \/ Contains(i, value)
          \/ Get(c, "type", "") \in {"database", "api", "web-application"} }])

detect_affected_flows(cell, flows) ==
  Let([value \in {Lower(Get(cell, "value", << >>))} |->
    { i \in {Get(f, "id", None) : f \in Range(flows)} :
        \E f \in {by_id(flows, i)} :
          \/ Contains(Lower(Get(f, "value", << >>)), value)
          \/ Contains(i, value)
          \/ Get(f, "protocol", "") \in {"http", "ws", "tcp"} }])

\* an initial score that starts from the mean of the risk-factor weights
calculate_initial_risk_score_of_mean_weight(threat_type, affected_components, affected_flows) ==
  LET threat_info == threat_patterns[CHOOSE i \in 1..Len(threat_patterns) :
                                       threat_patterns[i].name = threat_type]
      base_score == Frac(SeqSum(threat_info.risk_factors),
                         10 * Len(threat_info.risk_factors))
      component_factor == Frac(5 + Min(Cardinality(affected_components), 5), 5)
      flow_factor == Frac(3 + Min(Cardinality(affected_flows), 3), 3)
  IN  FracMin(FracMul(FracMul(base_score, component_factor), flow_factor), <<1, 1>>)

calculate_initial_risk_score(threat_type, affected_components, affected_flows) ==
  LET threat_info == threat_patterns[CHOOSE i \in 1..Len(threat_patterns) :
                                       threat_patterns[i].name = threat_type]
      base_score == Frac(SeqSum(threat_info.risk_factors), 10)
      component_factor == Frac(5 + Min(Cardinality(affected_components), 5), 5)
      flow_factor == Frac(3 + Min(Cardinality(affected_flows), 3), 3)
  IN  FracMin(FracMul(FracMul(base_score, component_factor), flow_factor), <<1, 1>>)

\* the thresholds of _determine_priority, asked from the lowest up
determine_priority_upwards(risk_score) ==
  IF FracLeq(<<4, 10>>, risk_score) THEN "medium"
  ELSE IF FracLeq(<<6, 10>>, risk_score) THEN "high"
  ELSE IF FracLeq(<<8, 10>>, risk_score) THEN "critical"
  ELSE "low"

determine_priority(risk_score) ==
  IF FracLeq(<<8, 10>>, risk_score) THEN "critical"
  ELSE IF FracLeq(<<6, 10>>, risk_score) THEN "high"
  ELSE IF FracLeq(<<4, 10>>, risk_score) THEN "medium"
  ELSE "low"

\* only called on threat cells, for which a type is always detected
create_threat(cell, components, flows) ==
  Let([threat_type \in {detect_threat_type(cell)} |->
  Let([affected_components \in {detect_affected_components(cell, components)} |->
  Let([affected_flows \in {detect_affected_flows(cell, flows)} |->
  Let([risk_score \in {calculate_initial_risk_score(threat_type, affected_components, affected_flows)} |->
        [ id |-> Get(cell, "id", << >>),
          type |-> threat_type,
          name |-> Get(cell, "value", << >>),
          affected_components |-> affected_components,
          affected_flows |-> affected_flows,
          risk_score |-> risk_score,
          priority |-> determine_priority(risk_score),
          value |-> Get(cell, "value", << >>) ]])])])])

\* _improve_threat_detection: the threat it returns; the update of
\* threat_context is context_after
improve_threat_detection(threat, components, flows) ==
  [threat EXCEPT
     !.affected_components = {i \in @ : has_id(components, i)},
     !.affected_flows = {i \in @ : has_id(flows, i)}]

\* threat_context after the second pass over the threats
context_after(context, threats) ==
  [ affected_components |->
      context.affected_components
        \cup UNION {t.affected_components : t \in Range(threats)},
    affected_flows |->
      context.affected_flows \cup UNION {t.affected_flows : t \in Range(threats)} ]

\* validators.validate_and_correct_threat(threat, known_threats, risk_levels);
\* both dicts are given as the lists they are built from.  Each test reads
\* a field that no earlier correction wrote.
validate_and_correct_threat(threat, known_threats, risk_levels, seed) ==
  Let([r0 \in {[ is_valid |-> TRUE, warnings |-> << >>, corrected_data |-> threat ]} |->
  Let([risk_score \in {Get(threat, "risk_score", <<0, 1>>)} |->
    Correct(
      Correct(
        Correct(r0,
                \/ Falsy(Get(threat, "id", None))
                \/ ~has_id(known_threats, Get(threat, "id", None)),
                "id",
                temp_id(<<"t","e","m","p","_","t","h","r","e","a","t","_">>, seed,
                        Get(threat, "id", << >>) \o <<"|">>
                          \o Get(threat, "value", << >>) \o <<"|">>
                          \o Get(threat, "risk", << >>))),
        \/ Falsy(Get(threat, "risk", None))
        \/ ~has_id(risk_levels, Get(threat, "risk", None)),
        "risk", <<"l","o","w">>),
      ~(FracLeq(<<0, 1>>, risk_score) /\ FracLeq(risk_score, <<1, 1>>)),
      "risk_score", <<1, 2>>)])])

\* _create_composite_threat on the threats of the types the archetype names
create_composite_threat(pattern_info, threats) ==
  Let([base \in {{ x \in Range(threats) :
          Get(x, "type", "")
            \in pattern_info.required_threats \cup pattern_info.optional_threats }} |->
  Let([scores \in {{Get(x, "risk_score", <<0, 1>>) : x \in base}} |->
  Let([base_risk_score \in {IF scores = {} THEN <<0, 1>>
      ELSE CHOOSE m \in scores : \A x \in scores : FracLeq(x, m)} |->
  Let([risk_score \in {FracMin(FracMul(base_risk_score, Frac(pattern_info.risk_multiplier, 10)),
              <<1, 1>>)} |->
        [ id |-> <<"c","o","m","p","o","s","i","t","e","_">>
                   \o composite_threat_chars[pattern_info.name],
          type |-> pattern_info.name,
          name |-> <<"C","o","m","p","o","s","i","t","e"," ",
                     "T","h","r","e","a","t",":"," ">>
                     \o composite_threat_chars[pattern_info.name],
          affected_components |->
            UNION {Get(x, "affected_components", {}) : x \in base},
          affected_flows |-> UNION {Get(x, "affected_flows", {}) : x \in base},
          risk_score |-> risk_score,
          priority |-> determine_priority(risk_score),
          is_composite |-> TRUE,
          base_threats |->
            pattern_info.required_threats \cup pattern_info.optional_threats ]])])])])

\* _detect_composite_threats with an archetype applying as soon as one
\* required type has a threat
detect_composite_threats_on_any(threats) ==
  Let([types \in {{Get(x, "type", "") : x \in Range(threats)}} |->
  Let([applying \in {SelectSeq(composite_threat_patterns,
                LAMBDA p : p.required_threats \cap types # {})} |->
        List([k \in 1..Len(applying) |->
                create_composite_threat(applying[k], threats)])])])

\* _detect_composite_threats: an archetype applies when every required
\* type has a threat
detect_composite_threats(threats) ==
  Let([types \in {{Get(x, "type", "") : x \in Range(threats)}} |->
  Let([applying \in {SelectSeq(composite_threat_patterns,
                LAMBDA p : p.required_threats \subseteq types)} |->
        List([k \in 1..Len(applying) |->
                create_composite_threat(applying[k], threats)])])])

calculate_context_factor(threat, context) ==
  LET total_components == Cardinality(context.affected_components)
      total_flows == Cardinality(context.affected_flows)
      by_components ==
        IF total_components > 0
          THEN Frac(total_components
                      + Cardinality(Get(threat, "affected_components", {})),
                    total_components)
          ELSE <<1, 1>>
      by_flows ==
        IF total_flows > 0
          THEN Frac(total_flows + Cardinality(Get(threat, "affected_flows", {})),
                    total_flows)
          ELSE <<1, 1>>
  IN  FracMul(by_components, by_flows)

priority_levels(p) ==
  CASE p = "critical" -> 1
    [] p = "high" -> 2
    [] p = "medium" -> 3
    [] OTHER -> 4

\* the sort key (priority level, risk_score)
key_leq_ascending(a, b) ==
  LET pa == priority_levels(Get(a, "priority", "low"))
      pb == priority_levels(Get(b, "priority", "low"))
  IN  \/ pa < pb
      \/ pa = pb /\ FracLeq(Get(a, "risk_score", <<0, 1>>),
                            Get(b, "risk_score", <<0, 1>>))

\* the sort key (priority level, -risk_score): a sorts no later than b
key_leq(a, b) ==
  LET pa == priority_levels(Get(a, "priority", "low"))
      pb == priority_levels(Get(b, "priority", "low"))
  IN  \/ pa < pb
      \/ pa = pb /\ FracLeq(Get(b, "risk_score", <<0, 1>>),
                            Get(a, "risk_score", <<0, 1>>))

\* sorted(threats, key=...): stable
RECURSIVE sorted(_)
sorted(threats) ==
  IF threats = << >> THEN << >>
  ELSE Let([front \in {sorted(SubSeq(threats, 1, Len(threats) - 1))} |->
       Let([x \in {threats[Len(threats)]} |->
       Let([later \in {{k \in 1..Len(front) : ~key_leq(front[k], x)}} |->
       Let([stop \in {IF later = {} THEN Len(front)
           ELSE (CHOOSE k \in later : \A j \in later : k <= j) - 1} |->
             SubSeq(front, 1, stop) \o <<x>> \o SubSeq(front, stop + 1, Len(front))])])])])

\* _calculate_risk_scores: every score times its context factor, capped at
\* 1.0, the priority of the new score, then the sort
calculate_risk_scores(threats, context) ==
  sorted(List([k \in 1..Len(threats) |->
    Let([score \in {FracMin(FracMul(Get(threats[k], "risk_score", <<0, 1>>),
                        calculate_context_factor(threats[k], context)), <<1, 1>>)} |->
          Put(Put(threats[k], "risk_score", score),
              "priority", determine_priority(score))])]))

\* detect_threats on a detector whose threat_context is context: the
\* returned list and the context the detector keeps
detect_threats(cells, components, flows, context, seed) ==
  Let([threat_cells \in {SelectSeq(cells, is_threat_cell)} |->
  Let([threats \in {List([k \in 1..Len(threat_cells) |->
              create_threat(threat_cells[k], components, flows)])} |->
  Let([improved_threats \in {List([k \in 1..Len(threats) |->
              validate_and_correct_threat(
                improve_threat_detection(threats[k], components, flows),
                components, flows, seed).corrected_data])} |->
  Let([kept \in {context_after(context, threats)} |->
    [ threats |-> calculate_risk_scores(
                    improved_threats \o detect_composite_threats(improved_threats),
                    kept),
      threat_context |-> kept ]])])])])

(***************************************************************************)
(* ThreagileMapper.  An error or warning is kept as its kind, the index of *)
(* the entry it is about and the id it quotes.  Free text (ids, names,     *)
(* descriptions) is a character sequence; a value of an enumerated field   *)
(* (type, protocol, a security level) is a string, in the lower case that  *)
(* str.lower() leaves as it is.                                            *)
(***************************************************************************)
Err(code, index, ref) == [ code |-> code, index |-> index, ref |-> ref ]

RECURSIVE Flatten(_)
Flatten(ss) == IF ss = << >> THEN << >> ELSE Head(ss) \o Flatten(Tail(ss))

\* str(i) for a natural number
RECURSIVE decimal(_)
decimal(i) ==
  LET digits == <<"0","1","2","3","4","5","6","7","8","9">>
  IN  IF i < 10 THEN <<digits[i + 1]>>
      ELSE decimal(i \div 10) \o <<digits[(i % 10) + 1]>>

\* datetime.now().strftime('%Y-%m-%d') when the clock reads day d of
\* January 2024 (d counted from 0)
strftime(d) ==
  <<"2","0","2","4","-","0","1","-">>
    \o (IF d + 1 < 10 THEN <<"0">> ELSE << >>) \o decimal(d + 1)

\* table.get(key, default) on a table that maps its keys to themselves
Lookup(table, key, default) == IF key \in table THEN key ELSE default

map_components(components) ==
  Let([mapped \in {List([k \in 1..Len(components) |->
          [ id |-> Get(components[k], "id", <<"c","o","m","p","o","n","e","n","t","-">> \o decimal(k - 1)),
            name |-> Get(components[k], "name",
                         <<"C","o","m","p","o","n","e","n","t"," ">> \o decimal(k - 1)),
            type |-> Lookup(mapper.component_type_mapping, Get(components[k], "type", ""), "service"),
            description |-> Get(components[k], "description", << >>),
            tags |-> Get(components[k], "tags", << >>),
            technical_assets |-> Get(components[k], "technical_assets", << >>),
            data_assets |-> Get(components[k], "data_assets", << >>),
            trust_boundaries |-> Get(components[k], "trust_boundaries", << >>) ]])} |->
        [ mapped |-> mapped,
          errors |-> Flatten([k \in 1..Len(mapped) |->
               (IF Falsy(mapped[k].name)
                  THEN <<Err("component: name missing", k - 1, << >>)>> ELSE << >>)
            \o (IF mapped[k].type = ""
                  THEN <<Err("component: type missing", k - 1, << >>)>> ELSE << >>)]) ]])

map_technical_assets(assets) ==
  Let([mapped \in {List([k \in 1..Len(assets) |->
          [ id |-> Get(assets[k], "id", <<"a","s","s","e","t","-">> \o decimal(k - 1)),
            name |-> Get(assets[k], "name", <<"A","s","s","e","t"," ">> \o decimal(k - 1)),
            type |-> Lookup(mapper.component_type_mapping, Get(assets[k], "type", ""), "service"),
            description |-> Get(assets[k], "description", << >>),
            usage |-> Get(assets[k], "usage", "business"),
            owner |-> Get(assets[k], "owner", <<"U","n","k","n","o","w","n">>),
            confidentiality |->
              Lookup(mapper.security_level_mapping, Get(assets[k], "confidentiality", ""), "internal"),
            integrity |->
              Lookup(mapper.security_level_mapping, Get(assets[k], "integrity", ""), "operational"),
            availability |->
              Lookup(mapper.security_level_mapping, Get(assets[k], "availability", ""), "operational"),
            justification_cia_rating |-> Get(assets[k], "justification_cia_rating", << >>),
            multi_tenant |-> Get(assets[k], "multi_tenant", FALSE),
            redundant |-> Get(assets[k], "redundant", FALSE),
            custom_developed_parts |-> Get(assets[k], "custom_developed_parts", FALSE),
            encryption |-> Get(assets[k], "encryption", PyStr("none")),
            authentication |-> Get(assets[k], "authentication", "none"),
            authorization |-> Get(assets[k], "authorization", "none"),
            justification_authentication |-> Get(assets[k], "justification_authentication", << >>),
            justification_authorization |-> Get(assets[k], "justification_authorization", << >>) ]])} |->
        [ mapped |-> mapped,
          errors |-> Flatten([k \in 1..Len(mapped) |->
               (IF Falsy(mapped[k].name)
                  THEN <<Err("asset: name missing", k - 1, << >>)>> ELSE << >>)
            \o (IF mapped[k].type = ""
                  THEN <<Err("asset: type missing", k - 1, << >>)>> ELSE << >>)]) ]])

map_trust_boundaries(boundaries) ==
  Let([mapped \in {List([k \in 1..Len(boundaries) |->
          [ id |-> Get(boundaries[k], "id", <<"b","o","u","n","d","a","r","y","-">> \o decimal(k - 1)),
            name |-> Get(boundaries[k], "name",
                         <<"T","r","u","s","t"," ","B","o","u","n","d","a","r","y"," ">>
                           \o decimal(k - 1)),
            description |-> Get(boundaries[k], "description", << >>),
            type |-> Get(boundaries[k], "type", "network"),
            components |-> Get(boundaries[k], "components", << >>),
            technical_assets |-> Get(boundaries[k], "technical_assets", << >>),
            data_assets |-> Get(boundaries[k], "data_assets", << >>) ]])} |->
        [ mapped |-> mapped,
          errors |-> Flatten([k \in 1..Len(mapped) |->
               (IF Falsy(mapped[k].name)
                  THEN <<Err("boundary: name missing", k - 1, << >>)>> ELSE << >>)
            \o (IF mapped[k].type = ""
                  THEN <<Err("boundary: type missing", k - 1, << >>)>> ELSE << >>)]) ]])

map_data_assets(data_assets) ==
  Let([mapped \in {List([k \in 1..Len(data_assets) |->
          [ id |-> Get(data_assets[k], "id", <<"d","a","t","a","-">> \o decimal(k - 1)),
            name |-> Get(data_assets[k], "name",
                         <<"D","a","t","a"," ","A","s","s","e","t"," ">> \o decimal(k - 1)),
            description |-> Get(data_assets[k], "description", << >>),
            usage |-> Get(data_assets[k], "usage", "business"),
            owner |-> Get(data_assets[k], "owner", <<"U","n","k","n","o","w","n">>),
            confidentiality |->
              Lookup(mapper.security_level_mapping, Get(data_assets[k], "confidentiality", ""), "internal"),
            integrity |->
              Lookup(mapper.security_level_mapping, Get(data_assets[k], "integrity", ""), "operational"),
            availability |->
              Lookup(mapper.security_level_mapping, Get(data_assets[k], "availability", ""), "operational"),
            justification_cia_rating |-> Get(data_assets[k], "justification_cia_rating", << >>),
            storage |-> Get(data_assets[k], "storage", << >>),
            format |-> Get(data_assets[k], "format", << >>),
            origin |-> Get(data_assets[k], "origin", << >>),
            quantity |-> Get(data_assets[k], "quantity", << >>),
            tags |-> Get(data_assets[k], "tags", << >>) ]])} |->
        [ mapped |-> mapped,
          errors |-> Flatten([k \in 1..Len(mapped) |->
               IF Falsy(mapped[k].name)
                 THEN <<Err("data asset: name missing", k - 1, << >>)>>
                 ELSE << >>]) ]])

\* the ids of a mapped collection (a set of _reference_cache)
ids_of(entries) == {entries[k].id : k \in 1..Len(entries)}

\* _map_relations leaving out the relations it reports
map_relations_resolved(relations, cache) ==
  Let([mapped \in {List([k \in 1..Len(relations) |->
          [ id |-> Get(relations[k], "id", <<"r","e","l","a","t","i","o","n","-">> \o decimal(k - 1)),
            name |-> Get(relations[k], "name",
                         <<"R","e","l","a","t","i","o","n"," ">> \o decimal(k - 1)),
            description |-> Get(relations[k], "description", << >>),
            type |-> Lookup(mapper.relation_type_mapping, Get(relations[k], "type", ""), "data-flow"),
            source |-> Get(relations[k], "source", << >>),
            target |-> Get(relations[k], "target", << >>),
            protocol |-> Lookup(mapper.protocol_mapping, Get(relations[k], "protocol", ""), "tcp"),
            authentication |-> Get(relations[k], "authentication", "none"),
            authorization |-> Get(relations[k], "authorization", "none"),
            encryption |-> Get(relations[k], "encryption", PyStr("none")),
            data_assets |-> Get(relations[k], "data_assets", << >>),
            tags |-> Get(relations[k], "tags", << >>) ]])} |->
        [ mapped |-> SelectSeq(mapped, LAMBDA r :
                       /\ r.source \in cache.components \cup cache.technical_assets
                       /\ r.target \in cache.components \cup cache.technical_assets),
          errors |-> Flatten([k \in 1..Len(mapped) |->
               (IF Falsy(mapped[k].source)
                  THEN <<Err("relation: source missing", k - 1, << >>)>> ELSE << >>)
            \o (IF Falsy(mapped[k].target)
                  THEN <<Err("relation: target missing", k - 1, << >>)>> ELSE << >>)
            \o (IF mapped[k].source \notin cache.components \cup cache.technical_assets
                  THEN <<Err("relation: source invalid", k - 1, mapped[k].source)>>
                  ELSE << >>)
            \o (IF mapped[k].target \notin cache.components \cup cache.technical_assets
                  THEN <<Err("relation: target invalid", k - 1, mapped[k].target)>>
                  ELSE << >>)]) ]])

map_relations(relations, cache) ==
  Let([mapped \in {List([k \in 1..Len(relations) |->
          [ id |-> Get(relations[k], "id", <<"r","e","l","a","t","i","o","n","-">> \o decimal(k - 1)),
            name |-> Get(relations[k], "name",
                         <<"R","e","l","a","t","i","o","n"," ">> \o decimal(k - 1)),
            description |-> Get(relations[k], "description", << >>),
            type |-> Lookup(mapper.relation_type_mapping, Get(relations[k], "type", ""), "data-flow"),
            source |-> Get(relations[k], "source", << >>),
            target |-> Get(relations[k], "target", << >>),
            protocol |-> Lookup(mapper.protocol_mapping, Get(relations[k], "protocol", ""), "tcp"),
            authentication |-> Get(relations[k], "authentication", "none"),
            authorization |-> Get(relations[k], "authorization", "none"),
            encryption |-> Get(relations[k], "encryption", PyStr("none")),
            data_assets |-> Get(relations[k], "data_assets", << >>),
            tags |-> Get(relations[k], "tags", << >>) ]])} |->
        [ mapped |-> mapped,
          errors |-> Flatten([k \in 1..Len(mapped) |->
               (IF Falsy(mapped[k].source)
                  THEN <<Err("relation: source missing", k - 1, << >>)>> ELSE << >>)
            \o (IF Falsy(mapped[k].target)
                  THEN <<Err("relation: target missing", k - 1, << >>)>> ELSE << >>)
            \o (IF mapped[k].source \notin cache.components \cup cache.technical_assets
                  THEN <<Err("relation: source invalid", k - 1, mapped[k].source)>>
                  ELSE << >>)
            \o (IF mapped[k].target \notin cache.components \cup cache.technical_assets
                  THEN <<Err("relation: target invalid", k - 1, mapped[k].target)>>
                  ELSE << >>)]) ]])

\* the errors of one list of references of an entry against a set of ids
dangling(refs, known, code, owner) ==
  Let([bad \in {SelectSeq(refs, LAMBDA r : r \notin known)} |->
    List([k \in 1..Len(bad) |-> Err(code, owner, bad[k])])])

\* _validate_references; an error names its entry by position
validate_references(data, cache) ==
     Flatten([k \in 1..Len(data.components) |->
          dangling(Get(data.components[k], "technical_assets", << >>),
                   cache.technical_assets, "component: unknown technical asset", k - 1)
       \o dangling(Get(data.components[k], "data_assets", << >>),
                   cache.data_assets, "component: unknown data asset", k - 1)
       \o dangling(Get(data.components[k], "trust_boundaries", << >>),
                   cache.trust_boundaries, "component: unknown trust boundary", k - 1)])
  \o Flatten([k \in 1..Len(data.trust_boundaries) |->
          dangling(Get(data.trust_boundaries[k], "components", << >>),
                   cache.components, "boundary: unknown component", k - 1)
       \o dangling(Get(data.trust_boundaries[k], "technical_assets", << >>),
                   cache.technical_assets, "boundary: unknown technical asset", k - 1)
       \o dangling(Get(data.trust_boundaries[k], "data_assets", << >>),
                   cache.data_assets, "boundary: unknown data asset", k - 1)])

\* map_to_threagile on a mapper whose clock reads day today
map_to_threagile(drawio_data, today) ==
  Let([none \in {[ mapped |-> << >>, errors |-> << >> ]} |->
  Let([components \in {IF HasKey(drawio_data, "components")
        THEN map_components(drawio_data.components) ELSE none} |->
  Let([assets \in {IF HasKey(drawio_data, "technical_assets")
        THEN map_technical_assets(drawio_data.technical_assets) ELSE none} |->
  Let([boundaries \in {IF HasKey(drawio_data, "trust_boundaries")
        THEN map_trust_boundaries(drawio_data.trust_boundaries) ELSE none} |->
  Let([data_assets \in {IF HasKey(drawio_data, "data_assets")
        THEN map_data_assets(drawio_data.data_assets) ELSE none} |->
  Let([cache \in {[ components |-> ids_of(components.mapped),
        technical_assets |-> ids_of(assets.mapped),
        data_assets |-> ids_of(data_assets.mapped),
        trust_boundaries |-> ids_of(boundaries.mapped) ]} |->
  Let([relations \in {IF HasKey(drawio_data, "relations")
        THEN map_relations(drawio_data.relations, cache) ELSE none} |->
  Let([threagile_data \in {[ title |-> Get(drawio_data, "title", <<"U","n","t","i","t","l","e","d">>),
        description |-> Get(drawio_data, "description", << >>),
        date |-> strftime(today),
        author |-> Get(drawio_data, "author", <<"U","n","k","n","o","w","n">>),
        components |-> components.mapped,
        data_assets |-> data_assets.mapped,
        trust_boundaries |-> boundaries.mapped,
        technical_assets |-> assets.mapped,
        relations |-> relations.mapped ]} |->
  Let([errors \in {components.errors \o assets.errors \o boundaries.errors
        \o data_assets.errors \o relations.errors
        \o validate_references(threagile_data, cache)} |->
        [ success |-> Len(errors) = 0,
          mapped_data |-> threagile_data,
          errors |-> errors,
          warnings |-> << >> ]])])])])])])])])])

(***************************************************************************)
(* ThreagileValidator.validate_yaml, on the mapping yaml.safe_load returns *)
(* for the content.                                                        *)
(***************************************************************************)
FieldErr(code, index, field) == [ code |-> code, index |-> index, field |-> field ]

\* the required-field loop over one entry; isinstance(value, type) can fail
\* on the encryption fields, the ones the model's documents may hold with
\* another type than the declared one
field_errors(entry, fields, index) ==
  Let([bad \in {SelectSeq(fields,
        LAMBDA f : \/ ~HasKey(entry, f.field)
                   \/ f.field = "encryption" /\ entry[f.field].py # f.type)} |->
        [k \in 1..Len(bad) |->
           IF ~HasKey(entry, bad[k].field)
             THEN FieldErr("missing field", index, bad[k].field)
             ELSE FieldErr("invalid type", index, bad[k].field)]])

\* the name and description length warnings of one entry
length_warnings(entry, index) ==
     (IF HasKey(entry, "name")
        THEN IF Len(entry.name) < validator.validation_rules.min_name_length
               THEN <<Err("name too short", index, entry.name)>>
             ELSE IF Len(entry.name) > validator.validation_rules.max_name_length
               THEN <<Err("name too long", index, entry.name)>>
             ELSE << >>
        ELSE << >>)
  \o (IF HasKey(entry, "description")
        THEN IF Len(entry.description) < validator.validation_rules.min_description_length
               THEN <<Err("description too short", index, entry.description)>>
             ELSE IF Len(entry.description) > validator.validation_rules.max_description_length
               THEN <<Err("description too long", index, entry.description)>>
             ELSE << >>
        ELSE << >>)

\* a warning about the type of one entry
type_warning(entry, valid_types, index) ==
  IF HasKey(entry, "type") /\ entry.type \notin valid_types
    THEN <<FieldErr("unknown type", index, entry.type)>> ELSE << >>

validate_components(components) ==
  [ errors |-> Flatten([k \in 1..Len(components) |->
                  field_errors(components[k], validator.component_fields, k - 1)]),
    warnings |-> Flatten([k \in 1..Len(components) |->
                  type_warning(components[k], valid_component_types, k - 1)]) ]

validate_technical_assets(assets) ==
  [ errors |-> Flatten([k \in 1..Len(assets) |->
                  field_errors(assets[k], validator.technical_asset_fields, k - 1)]),
    warnings |-> Flatten([k \in 1..Len(assets) |->
                  type_warning(assets[k], valid_asset_types, k - 1)]) ]

validate_data_assets(data_assets) ==
  [ errors |-> Flatten([k \in 1..Len(data_assets) |->
                  field_errors(data_assets[k], validator.data_asset_fields, k - 1)]),
    warnings |-> Flatten([k \in 1..Len(data_assets) |->
                  (IF /\ HasKey(data_assets[k], "data_classification")
                      /\ data_assets[k].data_classification
                           \notin validator.valid_security_levels.confidentiality
                     THEN <<FieldErr("invalid data classification", k - 1,
                                     data_assets[k].data_classification)>>
                     ELSE << >>)
                  \o length_warnings(data_assets[k], k - 1)]) ]

validate_trust_boundaries(boundaries) ==
  [ errors |-> Flatten([k \in 1..Len(boundaries) |->
                  field_errors(boundaries[k], validator.trust_boundary_fields, k - 1)]),
    warnings |-> Flatten([k \in 1..Len(boundaries) |->
                  type_warning(boundaries[k], valid_boundary_types, k - 1)
                  \o length_warnings(boundaries[k], k - 1)]) ]

\* {x['id'] for x in entries if 'id' in x}
present_ids(entries) ==
  {entries[k].id : k \in {j \in 1..Len(entries) : HasKey(entries[j], "id")}}

validate_relations(relations, components, assets) ==
  Let([valid_ids \in {present_ids(components) \cup present_ids(assets)} |->
    [ errors |-> Flatten([k \in 1..Len(relations) |->
           field_errors(relations[k], validator.relation_fields, k - 1)
        \o (IF /\ HasKey(relations[k], "source")
               /\ relations[k].source \notin valid_ids
              THEN <<Err("relation: source invalid", k - 1, relations[k].source)>>
              ELSE << >>)
        \o (IF /\ HasKey(relations[k], "target")
               /\ relations[k].target \notin valid_ids
              THEN <<Err("relation: target invalid", k - 1, relations[k].target)>>
              ELSE << >>)]),
      warnings |-> Flatten([k \in 1..Len(relations) |->
           type_warning(relations[k], valid_relation_types, k - 1)
        \o length_warnings(relations[k], k - 1)]) ]])

\* _validate_unique_ids: one error for each id met a second time, over the
\* components and then the technical assets
validate_unique_ids(data) ==
  Let([entries \in {   (IF HasKey(data, "components") THEN data.components ELSE << >>)
      \o (IF HasKey(data, "technical_assets") THEN data.technical_assets ELSE << >>)} |->
        [k \in 1..Len(entries) |->
           IF /\ HasKey(entries[k], "id")
              /\ \E j \in 1..(k - 1) :
                   HasKey(entries[j], "id") /\ entries[j].id = entries[k].id
             THEN <<Err("duplicate id", k - 1, entries[k].id)>>
             ELSE << >>]])

\* _validate_threagile_compliance
validate_threagile_compliance(data) ==
  LET rules == validator.threagile_compliance_rules
      empty(collection) == HasKey(data, collection) /\ data[collection] = << >>
  IN     (IF rules.required_trust_boundaries /\ empty("trust_boundaries")
            THEN <<FieldErr("collection empty", 0, "trust_boundaries")>> ELSE << >>)
      \o (IF rules.required_data_assets /\ empty("data_assets")
            THEN <<FieldErr("collection empty", 0, "data_assets")>> ELSE << >>)
      \o (IF rules.required_technical_assets /\ empty("technical_assets")
            THEN <<FieldErr("collection empty", 0, "technical_assets")>> ELSE << >>)
      \o (IF rules.unique_ids THEN Flatten(validate_unique_ids(data)) ELSE << >>)

\* _validate_relationships (the definition in force: the second of the two
\* identical ones in the class body)
validate_relationships(data) ==
  IF HasKey(data, "components") /\ HasKey(data, "technical_assets")
    THEN Let([asset_ids \in {present_ids(data.technical_assets)} |->
           Flatten([k \in 1..Len(data.components) |->
                dangling(Get(data.components[k], "technical_assets", << >>),
                         asset_ids, "component: unknown asset", k - 1)
             \o dangling(Get(data.components[k], "data_assets", << >>),
                         asset_ids, "component: unknown data asset", k - 1)])])
    ELSE << >>

validate_yaml(data) ==
  IF data = << >>
    THEN [ is_valid |-> FALSE,
           errors |-> <<FieldErr("empty content", 0, "")>>,
           warnings |-> << >> ]
    ELSE
      Let([none \in {[ errors |-> << >>, warnings |-> << >> ]} |->
      Let([components \in {IF HasKey(data, "components")
            THEN validate_components(data.components) ELSE none} |->
      Let([assets \in {IF HasKey(data, "technical_assets")
            THEN validate_technical_assets(data.technical_assets) ELSE none} |->
      Let([data_assets \in {IF HasKey(data, "data_assets")
            THEN validate_data_assets(data.data_assets) ELSE none} |->
      Let([boundaries \in {IF HasKey(data, "trust_boundaries")
            THEN validate_trust_boundaries(data.trust_boundaries) ELSE none} |->
      Let([relations \in {IF HasKey(data, "relations")
            THEN validate_relations(data.relations,
                                    Get(data, "components", << >>),
                                    Get(data, "technical_assets", << >>))
            ELSE none} |->
      Let([errors \in {field_errors(data, validator.required_fields, 0)
            \o components.errors \o assets.errors \o data_assets.errors
            \o boundaries.errors \o relations.errors
            \o validate_threagile_compliance(data)
            \o Flatten(validate_unique_ids(data))
            \o validate_relationships(data)} |->
            [ is_valid |-> Len(errors) = 0,
              errors |-> errors,
              warnings |-> components.warnings \o assets.warnings
                             \o data_assets.warnings \o boundaries.warnings
                             \o relations.warnings ]])])])])])])])

(***************************************************************************)
(* Inputs.  A cell is the dict DrawIOParser._extract_cells builds: every   *)
(* key is present, an absent attribute is the empty text.                  *)
(***************************************************************************)
Vertex(id, value, style) ==
  [ id |-> id, value |-> value, style |-> style, edge |-> "0",
    source |-> << >>, target |-> << >>, parent |-> <<"1">> ]

Edge(id, value, style, source, target) ==
  [ id |-> id, value |-> value, style |-> style, edge |-> "1",
    source |-> source, target |-> target, parent |-> <<"1">> ]

WebApp == Vertex(<<"2">>, <<"W","e","b"," ","A","p","p">>, <<"r","o","u","n","d","e","d">>)

Database ==
  Vertex(<<"3">>, <<"D","a","t","a","b","a","s","e">>, <<"c","y","l","i","n","d","e","r">>)

WebToDatabase == Edge(<<"4">>, << >>, << >>, <<"2">>, <<"3">>)

\* the cells of the diagrams the model runs on: the layer cell, the two
\* components and their edge, two threat labels, an edge to a cell that is
\* not in the diagram, and a cell without an id
CellPool ==
  << Vertex(<<"1">>, << >>, << >>),
     WebApp,
     Database,
     WebToDatabase,
     Vertex(<<"5">>, <<"l","o","g","i","n">>, << >>),
     Vertex(<<"6">>, <<"r","o","l","e">>, <<"r","o","l","e">>),
     Edge(<<"7">>, <<"h","t","t","p","s">>, <<"d","a","s","h","e","d">>, <<"2">>, <<"9">>),
     Vertex(<< >>, <<"Q","u","e","u","e">>, << >>) >>

\* the cells of the pool at the indices S, in the order of the pool
Cells(S) ==
  List([k \in 1..Cardinality(S) |->
          CellPool[CHOOSE x \in S : Cardinality({y \in S : y < x}) = k - 1]])

\* the diagram of test_extract_threats, the styles cut to their shape: a
\* cell labelled "API Gateway" joined to a cell labelled "SQL Injection"
ThreatDiagram ==
  << Vertex(<<"2">>, <<"A","P","I"," ","G","a","t","e","w","a","y">>, <<"r","o","u","n","d","e","d">>),
     Vertex(<<"3">>, <<"S","Q","L"," ","I","n","j","e","c","t","i","o","n">>,
            <<"e","l","l","i","p","s","e">>),
     Edge(<<"4">>, << >>, << >>, <<"2">>, <<"3">>) >>

\* a diagram with a container: the cell labelled "API" has the cell
\* labelled "Database" as its parent
NestedDiagram ==
  << Vertex(<<"2">>, <<"D","a","t","a","b","a","s","e">>,
            <<"a","u","t","h"," ","r","o","l","e">>),
     [ Vertex(<<"3">>, <<"A","P","I">>, <<"a","u","t","h"," ","r","o","l","e">>)
         EXCEPT !.parent = <<"2">> ] >>

\* the diagrams: at most MaxCells cells of the pool, the diagram of the
\* tests and the diagram with a container
CellSeqs ==
  { Cells(S) : S \in {T \in SUBSET (1..Len(CellPool)) : Cardinality(T) <= MaxCells} }
    \cup { ThreatDiagram, NestedDiagram }

\* the salts a process may draw for str hashes
HashSeeds == { <<"a">>, <<"b">> }

\* the members a parent component is given in the hierarchies handed to
\* CompositeComponentManager; the last one is itself a parent
MemberPool ==
  << [ type |-> "api", value |-> <<"O","r","d","e","r","s"," ","A","P","I">>,
       authentication |-> "required", authorization |-> "required",
       data_sensitivity |-> "confidential" ],
     [ type |-> "database", value |-> <<"O","r","d","e","r","s"," ","D","B">>,
       authentication |-> "required", authorization |-> "required",
       data_sensitivity |-> "restricted" ],
     [ type |-> "cache", value |-> <<"C","a","c","h","e">>,
       authentication |-> "none", authorization |-> "none",
       data_sensitivity |-> "internal" ],
     [ type |-> "database", value |-> <<"R","e","p","l","i","c","a">>,
       authentication |-> "none", authorization |-> "required",
       data_sensitivity |-> "internal" ],
     [ type |-> "api", value |-> <<"P","u","b","l","i","c"," ","A","P","I">>,
       authentication |-> "none", authorization |-> "none",
       data_sensitivity |-> "internal" ],
     [ type |-> "cache", value |-> <<"B","i","l","l","i","n","g"," ","S","e","r","v","i","c","e">>,
       authentication |-> "none", authorization |-> "none",
       data_sensitivity |-> "public" ] >>

\* the members of the member that is itself a parent, the last of the pool
NestedMembers == << 1, 2, 3 >>

\* the component list of a hierarchy: the parent, its members (ids p1, p2,
\* ...), and n members (ids n1, n2, ...) under the first member that is
\* itself a parent
Hierarchy(label, members, n) ==
  LET member(template, id, parent) ==
        [ id |-> id, name |-> template.value, parent |-> parent ] @@ template
      nested == {k \in 1..Len(members) : members[k] = Len(MemberPool)}
  IN  << [ id |-> <<"p">>, name |-> label, value |-> label, type |-> "process",
           parent |-> <<"1">>, authentication |-> "none", authorization |-> "none",
           data_sensitivity |-> "public" ] >>
      \o [k \in 1..Len(members) |->
            member(MemberPool[members[k]], <<"p">> \o decimal(k), <<"p">>)]
      \o (IF nested = {} THEN << >>
          ELSE [k \in 1..n |->
                  member(MemberPool[NestedMembers[k]], <<"n">> \o decimal(k),
                         <<"p">> \o decimal(CHOOSE j \in nested :
                                              \A i \in nested : j <= i))])

Hierarchies ==
  { Hierarchy(label, members, n) :
      label \in { <<"O","r","d","e","r"," ","S","e","r","v","i","c","e">>,
                  <<"O","r","d","e","r","s">> },
      members \in UNION {[1..m -> 1..Len(MemberPool)] : m \in 0..MaxMembers},
      n \in 0..Min(MaxMembers, Len(NestedMembers)) }

\* the data handed to ThreagileMapper outside the detection pipeline: one
\* component, optionally a technical asset and a data asset, a trust
\* boundary, and at most one relation
DrawioData(with_asset, with_data, asset_refs, data_refs, relations) ==
  [ title |-> <<"S","h","o","p">>,
    components |->
      << [ id |-> <<"w","e","b","-","a","p","p">>,
           name |-> <<"w","e","b","-","a","p","p">>,
           type |-> "web-application",
           technical_assets |-> asset_refs,
           data_assets |-> data_refs ] >>,
    technical_assets |->
      IF with_asset
        THEN << [ id |-> <<"a","p","p","-","s","e","r","v","e","r">>,
                  name |-> <<"a","p","p","-","s","e","r","v","e","r">>,
                  type |-> "service" ] >>
        ELSE << >>,
    data_assets |->
      IF with_data
        THEN << [ id |-> <<"c","u","s","t","o","m","e","r","-","d","a","t","a">>,
                  name |-> <<"c","u","s","t","o","m","e","r","-","d","a","t","a">> ] >>
        ELSE << >>,
    trust_boundaries |->
      << [ id |-> <<"d","m","z">>, name |-> <<"d","m","z">>,
           components |-> << <<"w","e","b","-","a","p","p">> >> ] >>,
    relations |-> relations ]

DrawioPool ==
  LET ids == { <<"w","e","b","-","a","p","p">>,
               <<"a","p","p","-","s","e","r","v","e","r">>,
               <<"c","u","s","t","o","m","e","r","-","d","a","t","a">>,
               <<"g","h","o","s","t">> }
      references == { << >> } \cup { <<r>> : r \in ids }
      relations ==
        { << >> } \cup
        { << [ id |-> <<"r","1">>, source |-> s, target |-> t,
               protocol |-> "https" ] >> :
            s \in ids, t \in { <<"w","e","b","-","a","p","p">>, <<"g","h","o","s","t">> } }
  IN  { DrawioData(a, d, ar, dr, rl) :
          a \in BOOLEAN, d \in BOOLEAN, ar \in references, dr \in references,
          rl \in relations }

\* a threat as _create_threat builds it, affecting the component 2
Threat(id, type, risk_score) ==
  [ id |-> id, type |-> type, name |-> id,
    affected_components |-> { <<"2">> }, affected_flows |-> {},
    risk_score |-> risk_score, priority |-> determine_priority(risk_score),
    value |-> id ]

\* the threats handed to _detect_composite_threats and
\* _calculate_risk_scores outside detect_threats
ThreatPool ==
  << Threat(<<"t","1">>, "authentication", <<1, 2>>),
     Threat(<<"t","2">>, "authorization", <<3, 10>>),
     Threat(<<"t","3">>, "authorization", <<9, 10>>),
     Threat(<<"t","4">>, "injection", <<1, 1>>),
     Threat(<<"t","5">>, "dos", <<1, 2>>),
     Threat(<<"t","6">>, "data_exposure", <<9, 10>>) >>

ThreatSeqs ==
  UNION { [1..m -> Range(ThreatPool)] : m \in 0..MaxThreats }

\* a component as _create_component builds it for a type
Component(id, type) ==
  [ id |-> id, name |-> id, type |-> type, confidence_score |-> ScoreUnit,
    authentication |-> TypeInfo(type).authentication,
    authorization |-> TypeInfo(type).authorization,
    data_sensitivity |-> TypeInfo(type).data_sensitivity,
    style |-> << >>, value |-> id ]

\* the types of the two components handed to FlowDetector.detect_flows
\* outside the pipeline: the types its rules name and one they do not
EndTypes ==
  { "database", "api", "message-queue", "cache", "web-application", "process" }

\* the edge between the two components: its label, its style
EdgePool ==
  { Edge(<<"e">>, label, style, <<"a">>, <<"b">>) :
      label \in { << >>, <<"h","t","t","p","s">> },
      style \in { << >>, <<"d","a","s","h","e","d">> } }

\* an entry with every field of a field table: the given ones, and an
\* empty text or list for the others
Complete(fields, given) ==
  given @@ [f \in {fields[k].field : k \in 1..Len(fields)} |->
              IF f = "encryption" THEN PyStr("none") ELSE << >>]

\* documents handed to validate_yaml that lack no field: a component, a
\* technical asset, a data asset, a trust boundary and a relation, the
\* last four with an id of their own or with the id of another entry
DocumentPool ==
  { Complete(validator.required_fields,
      [ components |->
          << Complete(validator.component_fields,
               [ id |-> <<"w","e","b","-","a","p","p">>,
                 name |-> <<"W","e","b"," ","A","p","p">>,
                 type |-> "web-application" ]) >>,
        technical_assets |->
          << Complete(validator.technical_asset_fields,
               [ id |-> asset, type |-> "service" ]) >>,
        data_assets |->
          << Complete(validator.data_asset_fields,
               [ id |-> data, data_classification |-> "internal" ]) >>,
        trust_boundaries |->
          << Complete(validator.trust_boundary_fields,
               [ id |-> boundary, type |-> "network" ]) >>,
        relations |->
          << Complete(validator.relation_fields,
               [ id |-> relation, type |-> "data-flow",
                 source |-> <<"w","e","b","-","a","p","p">>, target |-> asset ]) >> ]) :
      asset \in { <<"a","p","p","-","s","e","r","v","e","r">>, <<"w","e","b","-","a","p","p">> },
      data \in { <<"c","u","s","t","o","m","e","r","-","d","a","t","a">>, <<"w","e","b","-","a","p","p">> },
      boundary \in { <<"d","m","z">>, <<"c","u","s","t","o","m","e","r","-","d","a","t","a">> },
      relation \in { <<"r","1">>, <<"w","e","b","-","a","p","p">>, <<"d","m","z">> } }
(***************************************************************************)
(* The pipeline of spec section 2: the mapper is given the detected        *)
(* components as its components and the detected flows as its relations.   *)
(***************************************************************************)
drawio_data(comps, fls) == [ components |-> comps, relations |-> fls ]

(***************************************************************************)
(* State.                                                                  *)
(***************************************************************************)
VARIABLES
  re_bound,        \* the name re is bound in composite_component's namespace
  hash_seed,       \* the salt of str hashes in the running process
  clock,           \* the day datetime.now() reads
  threat_context,  \* ThreatDetector.threat_context of the detector in use
  op,              \* the operation applied last
  cells,           \* the diagram
  components,      \* what detect_components returned or raised
  flows,           \* what detect_flows returned
  threats,         \* what detect_threats returned
  mapping,         \* the MappingResult of map_to_threagile
  validation,      \* the ValidationResult of validate_yaml
  documents,       \* the documents mapped from the diagram, one a run
  rechecks,        \* the entities put through validate-and-correct twice
  hierarchy,       \* the components handed to the composite manager
  composites,      \* what detect_composite_components returned or raised
  merged,          \* what _merge_components returned
  given_threats,   \* the threats handed to _detect_composite_threats
  composite_threats, \* what _detect_composite_threats returned
  final_threats,   \* what _calculate_risk_scores returned
  protocol,        \* what DiagramParser._determine_protocol returned
  mapped_from,     \* the data handed to map_to_threagile
  yaml_content     \* the content handed to validate_yaml

vars ==
  <<re_bound, hash_seed, clock, threat_context, op, cells, components, flows,
    threats, mapping, validation, documents, rechecks, hierarchy, composites,
    merged, given_threats, composite_threats, final_threats, protocol, mapped_from,
    yaml_content>>

NoContext == [ affected_components |-> {}, affected_flows |-> {} ]

Init ==
  /\ re_bound \in BOOLEAN
  /\ hash_seed \in HashSeeds
  /\ clock = 0
  /\ threat_context = NoContext
  /\ op = "start"
  /\ cells = << >>
  /\ components = [ raised |-> "", value |-> << >> ]
  /\ flows = << >>
  /\ threats = << >>
  /\ mapping = [ success |-> TRUE, mapped_data |-> << >>, errors |-> << >>,
                 warnings |-> << >> ]
  /\ validation = [ is_valid |-> TRUE, errors |-> << >>, warnings |-> << >> ]
  /\ documents = << >>
  /\ rechecks = [ components |-> << >>, flows |-> << >>, threats |-> << >> ]
  /\ hierarchy = << >>
  /\ composites = [ raised |-> "", value |-> << >> ]
  /\ merged = << >>
  /\ given_threats = << >>
  /\ composite_threats = << >>
  /\ final_threats = << >>
  /\ protocol = ""
  /\ mapped_from = << >>
  /\ yaml_content = << >>

\* a run of the pipeline is over and another may follow
BetweenRuns ==
  /\ op \in {"validate_yaml", "restart"}
  /\ documents # << >>
  /\ Len(documents) < 2

(***************************************************************************)
(* Actions.                                                                *)
(***************************************************************************)
\* ComponentDetector.detect_components on a new diagram, or once more on
\* the diagram of the run before
DetectComponents(cs) ==
  /\ \/ op = "start" /\ cs \in CellSeqs
     \/ BetweenRuns /\ cs = cells
  /\ op' = "detect_components"
  /\ cells' = cs
  /\ components' = detect_components(cs, hash_seed, re_bound)
  /\ flows' = << >>
  /\ threats' = << >>
  /\ UNCHANGED <<re_bound, hash_seed, clock, threat_context, mapping,
                 validation, documents, rechecks, hierarchy, composites,
                 merged,
                 given_threats, composite_threats, final_threats, protocol, mapped_from,
                 yaml_content>>

\* FlowDetector.detect_flows on the detected components
DetectFlows ==
  /\ op = "detect_components"
  /\ components.raised = ""
  /\ op' = "detect_flows"
  /\ flows' = detect_flows(cells, components.value)
  /\ UNCHANGED <<re_bound, hash_seed, clock, threat_context, cells,
                 components, threats, mapping, validation, documents,
                 rechecks, hierarchy, composites, merged,
                 given_threats, composite_threats, final_threats, protocol, mapped_from,
                 yaml_content>>

\* FlowDetector.detect_flows on two components of given types and the edge
\* between them
DetectFlowsBetween(source_type, target_type, edge) ==
  /\ op = "start"
  /\ cells' = <<edge>>
  /\ components' = [ raised |-> "",
                     value |-> << Component(<<"a">>, source_type),
                                  Component(<<"b">>, target_type) >> ]
  /\ flows' = detect_flows(cells', components'.value)
  /\ op' = "detect_flows"
  /\ UNCHANGED <<re_bound, hash_seed, clock, threat_context, threats, mapping,
                 validation, documents, rechecks, hierarchy, composites, merged,
                 given_threats, composite_threats, final_threats, protocol, mapped_from,
                 yaml_content>>

\* DiagramParser._determine_protocol on the style and label of an edge and
\* two components of given types
DetermineProtocol(source_type, target_type, edge) ==
  /\ op = "start"
  /\ cells' = <<edge>>
  /\ components' = [ raised |-> "",
                     value |-> << Component(<<"a">>, source_type),
                                  Component(<<"b">>, target_type) >> ]
  /\ protocol' = determine_protocol(edge.style, edge.value,
                                    components'.value[1], components'.value[2])
  /\ op' = "determine_protocol"
  /\ UNCHANGED <<re_bound, hash_seed, clock, threat_context, flows, threats,
                 mapping, validation, documents, rechecks, hierarchy, composites,
                 merged, given_threats, composite_threats, final_threats, mapped_from,
                 yaml_content>>

\* ThreatDetector.detect_threats on the detected components and flows
DetectThreats ==
  /\ op = "detect_flows"
  /\ \E result \in {detect_threats(cells, components.value, flows, threat_context,
                                   hash_seed)} :
       /\ threats' = result.threats
       /\ threat_context' = result.threat_context
  /\ op' = "detect_threats"
  /\ UNCHANGED <<re_bound, hash_seed, clock, cells, components, flows, mapping,
                 validation, documents, rechecks, hierarchy, composites, merged,
                 given_threats, composite_threats, final_threats, protocol, mapped_from,
                 yaml_content>>

\* DrawIOParser.parse called once more on the same parser, on another
\* diagram: the three detections in a row; the threat detector is the one
\* of the call before
ParseAnother(cs) ==
  /\ op = "detect_threats"
  /\ cs \in {ThreatDiagram, << >>}
  /\ cs # cells
  /\ op' = "parse_another"
  /\ cells' = cs
  /\ \E comps \in {detect_components(cs, hash_seed, re_bound)} :
       /\ components' = comps
       /\ IF comps.raised # ""
            THEN /\ flows' = << >>
                 /\ threats' = << >>
                 /\ threat_context' = threat_context
            ELSE \E fls \in {detect_flows(cs, comps.value)} :
                 \E result \in {detect_threats(cs, comps.value, fls,
                                                threat_context, hash_seed)} :
                   /\ flows' = fls
                   /\ threats' = result.threats
                   /\ threat_context' = result.threat_context
  /\ UNCHANGED <<re_bound, hash_seed, clock, mapping, validation, documents,
                 rechecks, hierarchy, composites, merged, given_threats,
                 composite_threats, final_threats, protocol, mapped_from,
                 yaml_content>>

\* ThreagileMapper.map_to_threagile at the end of the pipeline
MapToThreagile ==
  /\ op = "detect_threats"
  /\ mapped_from' = drawio_data(components.value, flows)
  /\ \E result \in {map_to_threagile(mapped_from', clock)} :
       /\ mapping' = result
       /\ documents' = Append(documents, result.mapped_data)
  /\ op' = "map_to_threagile"
  /\ UNCHANGED <<re_bound, hash_seed, clock, threat_context, cells, components,
                 flows, threats, validation, rechecks, hierarchy, composites,
                 merged,
                 given_threats, composite_threats, final_threats, protocol,
                 yaml_content>>

\* ThreagileMapper.map_to_threagile on data that comes with its assets
MapDrawioData(data) ==
  /\ op = "start"
  /\ data \in DrawioPool
  /\ mapped_from' = data
  /\ mapping' = map_to_threagile(data, clock)
  /\ op' = "map_to_threagile"
  /\ UNCHANGED <<re_bound, hash_seed, clock, threat_context, cells,
                 components, flows, threats, validation, documents, rechecks,
                 hierarchy, composites, merged,
                 given_threats, composite_threats, final_threats, protocol,
                 yaml_content>>

\* ThreagileValidator.validate_yaml on the mapped document
ValidateYaml ==
  /\ op = "map_to_threagile"
  /\ yaml_content' = mapping.mapped_data
  /\ validation' = validate_yaml(mapping.mapped_data)
  /\ op' = "validate_yaml"
  /\ UNCHANGED <<re_bound, hash_seed, clock, threat_context, cells,
                 components, flows, threats, mapping, documents, rechecks,
                 hierarchy, composites, merged,
                 given_threats, composite_threats, final_threats, protocol, mapped_from>>

\* ThreagileValidator.validate_yaml on a document that lacks no field
ValidateContent(document) ==
  /\ op = "start"
  /\ yaml_content' = document
  /\ validation' = validate_yaml(document)
  /\ op' = "validate_content"
  /\ UNCHANGED <<re_bound, hash_seed, clock, threat_context, cells,
                 components, flows, threats, mapping, documents, rechecks,
                 hierarchy, composites, merged, given_threats,
                 composite_threats, final_threats, protocol, mapped_from>>

\* the validate-and-correct helpers, applied to the entities the detectors
\* hand them for the diagram, and again to what they returned
ValidateAndCorrectTwice ==
  /\ op = "detect_components"
  /\ \E first \in {first_pass(cells)} :
     \E context \in {update_detection_context(first)} :
     \E comps \in {second_pass(first, hash_seed)} :
     \E fls \in {detect_flows(cells, comps)} :
     \E flow_cells \in {SelectSeq(cells, LAMBDA c : is_flow_cell(c)
                                                     /\ resolves(c, comps))} :
     \E threat_cells \in {SelectSeq(cells, is_threat_cell)} :
       rechecks' =
         [ components |-> List([k \in 1..Len(first) |->
             Let([once \in {validate_and_correct_component(
                   improve_component_detection(first[k], context), hash_seed)} |->
                   [ first |-> once,
                     second |-> validate_and_correct_component(
                                  once.corrected_data, hash_seed) ]])]),
           flows |-> List([k \in 1..Len(flow_cells) |->
             Let([once \in {validate_and_correct_flow(
                   improve_flow_detection(create_flow(flow_cells[k], comps), comps),
                   comps)} |->
                   [ first |-> once,
                     second |-> validate_and_correct_flow(once.corrected_data,
                                                          comps) ]])]),
           threats |-> List([k \in 1..Len(threat_cells) |->
             Let([once \in {validate_and_correct_threat(
                   improve_threat_detection(
                     create_threat(threat_cells[k], comps, fls), comps, fls),
                   comps, fls, hash_seed)} |->
                   [ first |-> once,
                     second |-> validate_and_correct_threat(
                                  once.corrected_data, comps, fls, hash_seed) ]])]) ]
  /\ op' = "validate_and_correct"
  /\ UNCHANGED <<re_bound, hash_seed, clock, threat_context, cells, components,
                 flows, threats, mapping, validation, documents, hierarchy,
                 composites, merged,
                 given_threats, composite_threats, final_threats, protocol, mapped_from,
                 yaml_content>>

\* CompositeComponentManager.detect_composite_components on a hierarchy
DetectCompositeComponents(h) ==
  /\ op = "start"
  /\ h \in Hierarchies
  /\ hierarchy' = h
  /\ composites' = detect_composite_components(h, re_bound)
  /\ op' = "detect_composite_components"
  /\ UNCHANGED <<re_bound, hash_seed, clock, threat_context, cells,
                 components, flows, threats, mapping, validation, documents,
                 rechecks, merged,
                 given_threats, composite_threats, final_threats, protocol, mapped_from,
                 yaml_content>>

\* ComponentDetector._merge_components on the hierarchy and its composites
MergeComponents ==
  /\ op = "detect_composite_components"
  /\ composites.raised = ""
  /\ merged' = merge_components(hierarchy, composites.value)
  /\ op' = "merge_components"
  /\ UNCHANGED <<re_bound, hash_seed, clock, threat_context, cells,
                 components, flows, threats, mapping, validation, documents,
                 rechecks, hierarchy, composites,
                 given_threats, composite_threats, final_threats, protocol, mapped_from,
                 yaml_content>>

\* ThreatDetector._detect_composite_threats of a new detector on a list of
\* threats
DetectCompositeThreats(ts) ==
  /\ op = "start"
  /\ ts \in ThreatSeqs
  /\ given_threats' = ts
  /\ composite_threats' = detect_composite_threats(ts)
  /\ op' = "detect_composite_threats"
  /\ UNCHANGED <<re_bound, hash_seed, clock, threat_context, cells,
                 components, flows, threats, mapping, validation, documents,
                 rechecks, hierarchy, composites, merged, final_threats, protocol, mapped_from,
                 yaml_content>>

\* ThreatDetector._calculate_risk_scores on the threats and their composites
CalculateRiskScores ==
  /\ op = "detect_composite_threats"
  /\ final_threats' =
       calculate_risk_scores(given_threats \o composite_threats, threat_context)
  /\ op' = "calculate_risk_scores"
  /\ UNCHANGED <<re_bound, hash_seed, clock, threat_context, cells,
                 components, flows, threats, mapping, validation, documents,
                 rechecks, hierarchy, composites, merged, given_threats,
                 composite_threats, protocol, mapped_from,
                 yaml_content>>

\* midnight passes between two runs
Tick ==
  /\ BetweenRuns
  /\ clock < MaxDay
  /\ clock' = clock + 1
  /\ UNCHANGED <<re_bound, hash_seed, threat_context, op, cells, components,
                 flows, threats, mapping, validation, documents, rechecks,
                 hierarchy, composites, merged,
                 given_threats, composite_threats, final_threats, protocol, mapped_from,
                 yaml_content>>

\* the process ends and another starts: fresh detectors, a fresh hash salt;
\* the documents written so far stay
Restart ==
  /\ BetweenRuns
  /\ op = "validate_yaml"
  /\ hash_seed' \in HashSeeds
  /\ threat_context' = NoContext
  /\ op' = "restart"
  /\ UNCHANGED <<re_bound, clock, cells, components, flows, threats, mapping,
                 validation, documents, rechecks, hierarchy, composites,
                 merged,
                 given_threats, composite_threats, final_threats, protocol, mapped_from,
                 yaml_content>>

Next ==
  \/ \E cs \in CellSeqs : DetectComponents(cs)
  \/ DetectFlows
  \/ \E source_type \in EndTypes, target_type \in EndTypes, edge \in EdgePool :
       DetectFlowsBetween(source_type, target_type, edge)
  \/ \E source_type \in EndTypes, target_type \in EndTypes, edge \in EdgePool :
       DetermineProtocol(source_type, target_type, edge)
  \/ DetectThreats
  \/ \E cs \in CellSeqs : ParseAnother(cs)
  \/ MapToThreagile
  \/ \E data \in DrawioPool : MapDrawioData(data)
  \/ ValidateYaml
  \/ \E document \in DocumentPool : ValidateContent(document)
  \/ ValidateAndCorrectTwice
  \/ \E h \in Hierarchies : DetectCompositeComponents(h)
  \/ MergeComponents
  \/ \E ts \in ThreatSeqs : DetectCompositeThreats(ts)
  \/ CalculateRiskScores
  \/ Tick
  \/ Restart

Spec == Init /\ [][Next]_vars

(***************************************************************************)
(* Properties.                                                             *)
(***************************************************************************)
\* C1: the full pipeline run twice on the same cell sequence writes the
\* same document twice: nothing in it depends on the clock, on the hash
\* salt of the process or on what the first run left in a detector.
C1_SameDocumentTwice ==
  Len(documents) = 2 => documents[1] = documents[2]

\* C2: every entry detect_components returns, and every entry that
\* _merge_components builds from composites, has one of the declared
\* component types; every flow detect_flows returns has one of the
\* declared protocols.
C2_DeclaredTypesAndProtocols ==
  /\ \A k \in 1..Len(components.value) :
       Get(components.value[k], "type", "") \in TypeNames
  /\ \A k \in 1..Len(merged) : Get(merged[k], "type", "") \in TypeNames
  /\ \A k \in 1..Len(flows) : Get(flows[k], "protocol", "") \in ProtocolNames

\* C2 met: detect_flows has returned a flow between two detected components
C2_FlowBetweenComponents ==
  /\ op = "detect_flows"
  /\ flows # << >>
  /\ Len(components.value) >= 2

C4_RequiredPropagates ==
  \A k \in 1..Len(composites.value) :
    LET composite == composites.value[k]
        subs == composite.subcomponents
    IN  /\ (\E j \in 1..Len(subs) : subs[j].authentication = "required")
              => composite.security_context.authentication = "required"
        /\ (\E j \in 1..Len(subs) : subs[j].authorization = "required")
              => composite.security_context.authorization = "required"

\* C4 met: a composite whose first subcomponent requires no authentication
\* and whose last one does, and another way round for authorization
C4_RequiredAfterNone ==
  /\ op = "detect_composite_components"
  /\ \E k \in 1..Len(composites.value) :
       LET subs == composites.value[k].subcomponents
       IN  /\ subs[1].authentication = "none"
           /\ subs[Len(subs)].authentication = "required"
           /\ \E j \in 1..Len(subs) : subs[j].authorization = "none"
           /\ \E j \in 1..Len(subs) : subs[j].authorization = "required"

C6_PriorityOfFinalScore ==
  \A k \in 1..Len(threats) :
    LET score == threats[k].risk_score
        at_least(tenths) == tenths * score[2] <= 10 * score[1]
    IN  threats[k].priority =
          IF at_least(8) THEN "critical"
          ELSE IF at_least(6) THEN "high"
          ELSE IF at_least(4) THEN "medium"
          ELSE "low"

\* C6 met: detect_threats has returned a composite threat and the simple
\* threats it is made of
C6_SimpleAndCompositeThreats ==
  /\ op = "detect_threats"
  /\ \E k \in 1..Len(threats) : HasKey(threats[k], "is_composite")
  /\ \E k \in 1..Len(threats) : ~HasKey(threats[k], "is_composite")

\* C7: validate_yaml reports no unresolved reference exactly when every
\* relation's source and target is the id of a component or technical
\* asset, every id a component lists under technical_assets is the id of
\* a technical asset and every id it lists under data_assets is the id of
\* a data asset.
C7_UnresolvedReferencesExactly ==
  op = "validate_yaml" =>
    LET data == mapping.mapped_data
        ids(entries) == {entries[k].id : k \in 1..Len(entries)}
        listed(component, key) ==
          IF HasKey(component, key) THEN Range(component[key]) ELSE {}
        resolved ==
          /\ \A k \in 1..Len(data.relations) :
               /\ data.relations[k].source
                    \in ids(data.components) \cup ids(data.technical_assets)
               /\ data.relations[k].target
                    \in ids(data.components) \cup ids(data.technical_assets)
          /\ \A k \in 1..Len(data.components) :
               /\ listed(data.components[k], "technical_assets")
                    \subseteq ids(data.technical_assets)
               /\ listed(data.components[k], "data_assets")
                    \subseteq ids(data.data_assets)
        reported ==
          \E k \in 1..Len(validation.errors) :
            validation.errors[k].code
              \in {"relation: source invalid", "relation: target invalid",
                   "component: unknown asset", "component: unknown data asset"}
    IN  resolved <=> ~reported

\* C8: validate-and-correct applied to the entity a first application
\* returned, with the same context, returns that entity and no warning,
\* for components, flows and threats as the detectors call it.
C8_SecondApplicationIdle ==
  \A kind \in {"components", "flows", "threats"} :
    \A k \in 1..Len(rechecks[kind]) :
      /\ rechecks[kind][k].second.corrected_data
           = rechecks[kind][k].first.corrected_data
      /\ rechecks[kind][k].second.warnings = << >>

\* C9: in the diagram of a cell labelled Web App (rounded) and a cell
\* labelled Database (cylinder) joined by one edge, detect_components
\* types the first web-application and the second database.
C9_WebAppAndDatabaseTypes ==
  (op = "detect_components" /\ cells = <<WebApp, Database, WebToDatabase>>) =>
    /\ components.raised = ""
    /\ Len(components.value) = 2
    /\ components.value[1].type = "web-application"
    /\ components.value[2].type = "database"

\* C10: for the diagram of Web App and Database joined by one unlabelled
\* edge, detect_threats returns the empty list.
C10_NoThreatForWebAppAndDatabase ==
  (op = "detect_threats" /\ cells = <<WebApp, Database, WebToDatabase>>) =>
    threats = << >>


\* C11: on the diagram of "API Gateway" joined to "SQL Injection",
\* detect_threats returns exactly one threat, of type injection, whose
\* priority is the one the threshold table gives its risk score
C11_OneInjectionThreat ==
  (op = "detect_threats" /\ cells = ThreatDiagram) =>
    /\ Len(threats) = 1
    /\ threats[1].type = "injection"
    /\ threats[1].priority \in {"critical", "high", "medium", "low"}
    /\ threats[1].priority =
         (IF FracLeq(<<8, 10>>, threats[1].risk_score) THEN "critical"
          ELSE IF FracLeq(<<6, 10>>, threats[1].risk_score) THEN "high"
          ELSE IF FracLeq(<<4, 10>>, threats[1].risk_score) THEN "medium"
          ELSE "low")

\* C11 met: detect_threats has run on that diagram and found a threat
C11_ThreatOnThreatDiagram ==
  op = "detect_threats" /\ cells = ThreatDiagram /\ threats # << >>

\* C12: a composite threat of an archetype is emitted exactly when every
\* required type of the archetype has a simple threat, by
\* _detect_composite_threats and by detect_threats; its risk score before
\* the adjustment is min(m * multiplier, 1.0), m the largest score among
\* the threats of the required and optional types
C12_CompositeIffRequiredPresent ==
  \A i \in 1..Len(composite_threat_patterns) :
    LET archetype == composite_threat_patterns[i]
        given_types == {given_threats[k].type : k \in 1..Len(given_threats)}
        emitted == {k \in 1..Len(composite_threats) :
                      composite_threats[k].type = archetype.name}
        contributing ==
          {k \in 1..Len(given_threats) :
             given_threats[k].type
               \in archetype.required_threats \cup archetype.optional_threats}
        simple_types == {threats[k].type :
                           k \in {j \in 1..Len(threats) :
                                    ~HasKey(threats[j], "is_composite")}}
    IN  /\ emitted # {} <=> archetype.required_threats \subseteq given_types
        /\ Cardinality(emitted) <= 1
        /\ \A e \in emitted : \E k \in contributing :
             /\ \A j \in contributing :
                  given_threats[j].risk_score[1] * given_threats[k].risk_score[2]
                    <= given_threats[k].risk_score[1] * given_threats[j].risk_score[2]
             /\ LET m == given_threats[k].risk_score
                     product == <<m[1] * archetype.risk_multiplier, m[2] * 10>>
                     score == composite_threats[e].risk_score
                 IN  IF product[1] >= product[2]
                       THEN score = <<1, 1>>
                       ELSE score[1] * product[2] = product[1] * score[2]
        /\ (\E k \in 1..Len(threats) :
               HasKey(threats[k], "is_composite") /\ threats[k].type = archetype.name)
             <=> archetype.required_threats \subseteq simple_types

\* C12 met: _detect_composite_threats has emitted a composite whose score
\* stays under the cap, from three threats
C12_CompositeUnderTheCap ==
  /\ op = "detect_composite_threats"
  /\ Len(given_threats) = 3
  /\ \E k \in 1..Len(composite_threats) : composite_threats[k].risk_score # <<1, 1>>

\* C13: the list of detect_threats, and of _calculate_risk_scores on any
\* mix of simple and composite threats, goes from critical to low and,
\* within a priority, from the highest risk score down
C13_CriticalFirstThenScoreDown ==
  \A returned \in {threats, final_threats} :
    \A k \in 1..(Len(returned) - 1) :
      LET level(t) == CASE t.priority = "critical" -> 1
                        [] t.priority = "high" -> 2
                        [] t.priority = "medium" -> 3
                        [] t.priority = "low" -> 4
          a == returned[k]
          b == returned[k + 1]
      IN  \/ level(a) < level(b)
          \/ /\ level(a) = level(b)
             /\ b.risk_score[1] * a.risk_score[2] <= a.risk_score[1] * b.risk_score[2]

\* C13 met: _calculate_risk_scores has reordered simple and composite
\* threats of two priorities, two of them of one priority and two scores
C13_ReorderedMix ==
  /\ op = "calculate_risk_scores"
  /\ composite_threats # << >>
  /\ final_threats # given_threats \o composite_threats
  /\ \E j, k \in 1..Len(final_threats) :
       /\ final_threats[j].priority = final_threats[k].priority
       /\ final_threats[j].risk_score # final_threats[k].risk_score
  /\ \E j, k \in 1..Len(final_threats) :
       final_threats[j].priority # final_threats[k].priority

\* C14: detect_components returns for every cell sequence, and every
\* component cell whose label and style hold no style token or keyword and
\* match no archetype pattern of any type comes out as a component of type
\* process with confidence score 0
C14_ReturnsAndFallsBackToProcess ==
  op = "detect_components" =>
    /\ components.raised = ""
    /\ \A k \in 1..Len(cells) :
         LET value == Lower(Get(cells[k], "value", << >>))
             style == Lower(Get(cells[k], "style", << >>))
             unscorable ==
               \A i \in 1..Len(COMPONENT_TYPES) :
                 /\ \A j \in 1..Len(COMPONENT_TYPES[i].styles) :
                      /\ ~Contains(COMPONENT_TYPES[i].styles[j], style)
                      /\ ~Contains(COMPONENT_TYPES[i].styles[j], value)
                 /\ ~AnyPattern(PatternsOf(COMPONENT_TYPES[i].name), value)
         IN  (is_component_cell(cells[k]) /\ unscorable) =>
               \E c \in Range(components.value) :
                 /\ c.value = cells[k].value
                 /\ c.type = "process"
                 /\ c.confidence_score = 0

C16_RequiredByEitherEnd ==
  op = "detect_flows" =>
    \A k \in 1..Len(flows) :
      LET end(i) == CHOOSE c \in Range(components.value) : c.id = i
          source == end(flows[k].source)
          target == end(flows[k].target)
          declared == CHOOSE p \in Range(COMMUNICATION_PROTOCOLS) :
                        p.name = flows[k].protocol
      IN  /\ flows[k].security.authentication =
               (IF "required" \in {source.authentication, target.authentication}
                  THEN "required" ELSE declared.authentication)
          /\ flows[k].security.authorization =
               (IF "required" \in {source.authorization, target.authorization}
                  THEN "required" ELSE declared.authorization)

\* C16 met: detect_flows has returned a flow over a protocol that declares
\* no authentication, one end of which requires authentication
C16_RequiredOverOpenProtocol ==
  /\ op = "detect_flows"
  /\ \E k \in 1..Len(flows) :
       /\ flows[k].protocol \in {"tcp", "udp"}
       /\ flows[k].security.authentication = "required"

\* C17: an edge between two known components whose label is the protocol
\* token https gets the protocol https, whatever the types of its ends and
\* its style
C17_LabelTokenFirst ==
  op = "detect_flows" =>
    \A k \in 1..Len(flows) :
      \A cell \in Range(cells) :
        (cell.id = flows[k].id /\ Lower(cell.value) = <<"h","t","t","p","s">>)
          => flows[k].protocol = "https"

\* C18: for an edge whose label and style hold no protocol name, the
\* protocol of FlowDetector and of DiagramParser._determine_protocol is
\* tcp when an end is a database, else https when an end is an api, else
\* amqp when an end is a message queue, else tcp when an end is a cache
C18_DatabaseApiQueueCache ==
  LET no_token(cell) ==
        \A i \in 1..Len(protocol_chars) :
          /\ ~Contains(protocol_chars[i].chars, Lower(cell.value))
          /\ ~Contains(protocol_chars[i].chars, Lower(cell.style))
      end(i) == CHOOSE c \in Range(components.value) : c.id = i
      agrees(cell, decided) ==
        LET either(k) == \/ TypeContains(k, end(cell.source).type)
                         \/ TypeContains(k, end(cell.target).type)
        IN  no_token(cell) =>
              /\ either("database") => decided = "tcp"
              /\ (~either("database") /\ either("api")) => decided = "https"
              /\ (~either("database") /\ ~either("api") /\ either("message-queue"))
                   => decided = "amqp"
              /\ (/\ ~either("database") /\ ~either("api")
                  /\ ~either("message-queue") /\ either("cache"))
                   => decided = "tcp"
  IN  /\ op = "detect_flows" =>
           \A k \in 1..Len(flows) : \A cell \in Range(cells) :
             cell.id = flows[k].id => agrees(cell, flows[k].protocol)
      /\ op = "determine_protocol" => agrees(cells[1], protocol)

\* C18 met: detect_flows has given tcp to an unlabelled, unstyled edge from
\* a database to an api
C18_DatabaseWithApi ==
  /\ op = "detect_flows"
  /\ Len(flows) = 1
  /\ cells[1].value = << >> /\ cells[1].style = << >>
  /\ components.value[1].type = "database"
  /\ components.value[2].type = "api"
  /\ flows[1].protocol = "tcp"

\* C19: map_to_threagile keeps every relation it is given; a relation
\* whose source or target is no id of a mapped component or technical
\* asset has an error and makes success false; success is true exactly
\* when there is no error
C19_DanglingRelationKeptAndReported ==
  op = "map_to_threagile" =>
    LET document == mapping.mapped_data
        given == Get(mapped_from, "relations", << >>)
        ids == {document.components[k].id : k \in 1..Len(document.components)}
                 \cup {document.technical_assets[k].id :
                         k \in 1..Len(document.technical_assets)}
    IN  /\ mapping.success <=> mapping.errors = << >>
        /\ Len(document.relations) = Len(given)
        /\ \A k \in 1..Len(given) :
             /\ document.relations[k].source = given[k].source
             /\ document.relations[k].target = given[k].target
             /\ (given[k].source \notin ids \/ given[k].target \notin ids) =>
                  /\ ~mapping.success
                  /\ \E e \in Range(mapping.errors) :
                       /\ e.index = k - 1
                       /\ e.code \in {"relation: source invalid",
                                       "relation: target invalid"}

\* C19 met: map_to_threagile has mapped a relation whose target is no
\* component and no technical asset
C19_DanglingRelationMapped ==
  /\ op = "map_to_threagile"
  /\ \E k \in 1..Len(mapping.mapped_data.relations) :
       mapping.mapped_data.relations[k].target = <<"g","h","o","s","t">>

\* C20: validate_yaml answers is_valid = false whenever two entries of the
\* document have the same id, in one collection or in two, among the
\* components, technical assets, data assets, trust boundaries and
\* relations
C20_SharedIdIsAnError ==
  op \in {"validate_yaml", "validate_content"} =>
    LET collections == {"components", "technical_assets", "data_assets",
                        "trust_boundaries", "relations"}
        entries == UNION {{<<c, k>> : k \in 1..Len(yaml_content[c])} :
                            c \in collections}
        present == {e \in entries : HasKey(yaml_content[e[1]][e[2]], "id")}
        id(e) == yaml_content[e[1]][e[2]].id
    IN  (\E a, b \in present : a # b /\ id(a) = id(b)) => ~validation.is_valid

\* C21: validate_yaml answers is_valid = false with an error whenever the
\* name of a component or of a technical asset does not match
\* ^[a-z0-9-]+$
C21_NamingIsAnError ==
  op \in {"validate_yaml", "validate_content"} =>
    LET kebab == {"a","b","c","d","e","f","g","h","i","j","k","l","m","n",
                  "o","p","q","r","s","t","u","v","w","x","y","z","0","1",
                  "2","3","4","5","6","7","8","9","-"}
        matches(name) ==
          /\ name # << >>
          /\ \A i \in 1..Len(name) :
               \/ name[i] \in kebab
               \/ i = Len(name) /\ i > 1 /\ name[i] = "\n"
        named == {e \in Range(yaml_content.components)
                         \cup Range(yaml_content.technical_assets) :
                    HasKey(e, "name")}
    IN  (\E e \in named : ~matches(e.name)) =>
          ~validation.is_valid /\ validation.errors # << >>


\* C22: the second pass of detect_components raises the confidence of a
\* component by 0.2, capped at 1.0, when its label matches a pattern of its
\* type and the types of the components the hierarchy connects to it
\* satisfy a context rule of its type, lowers it by 0.1, floored at 0,
\* otherwise, and never changes the type
C22_ContextPassRaisesOrLowers ==
  (op = "detect_components" /\ components.raised = "") =>
    \A k \in 1..Len(cells) :
      (is_component_cell(cells[k]) /\ cells[k].id # << >>) =>
        LET before == create_component(cells[k])
            connected ==
              { create_component(cells[m]).type :
                  m \in { n \in 1..Len(cells) :
                            /\ is_component_cell(cells[n])
                            /\ cells[n].parent = cells[k].id } }
            raised ==
              /\ AnyPattern(PatternsOf(before.type), Lower(before.value))
              /\ context_rules(before.type, connected)
            expected ==
              IF raised
                THEN Min(ScoreUnit, before.confidence_score + 2 * 840)
                ELSE Max(0, before.confidence_score - 840)
        IN  \A c \in Range(components.value) :
              Get(c, "id", << >>) = cells[k].id =>
                /\ c.type = before.type
                /\ c.confidence_score = expected
                /\ c.confidence_score \in 0..ScoreUnit

\* C23: a component whose label matches the naming patterns of an archetype
\* is promoted to a composite of that archetype if and only if every
\* required type of the archetype is the type of one of its children and
\* at least one optional type is the type of one of its children
C23_PromotedIffRequiredAndOptional ==
  op = "detect_composite_components" =>
    \A k \in 1..Len(hierarchy) : \A a \in 1..Len(composite_patterns) :
      LET candidate == hierarchy[k]
          pattern_info == composite_patterns[a]
          child_types ==
            { hierarchy[m].type :
                m \in { n \in 1..Len(hierarchy) :
                          hierarchy[n].parent = candidate.id } }
          promoted ==
            \E j \in 1..Len(composites.value) :
              /\ composites.value[j].id = candidate.id
              /\ composites.value[j].type = pattern_info.name
      IN  is_potential_composite(candidate, pattern_info) =>
            (promoted <=>
               /\ pattern_info.required_components \subseteq child_types
               /\ pattern_info.optional_components \cap child_types # {})

\* C24: the context a run of the threat detector uses is rebuilt from
\* scratch: after a run the affected-component and affected-flow sets hold
\* what the threats of that run affect and nothing else, and the threats
\* returned are those a new detector returns for the diagram
C24_ContextOfThisRunOnly ==
  (op \in {"detect_threats", "parse_another"} /\ components.raised = "") =>
    LET fresh == detect_threats(cells, components.value, flows, NoContext,
                                hash_seed)
    IN  /\ threat_context = fresh.threat_context
        /\ threats = fresh.threats

\* C25: a component that detect_components creates from a cell with a
\* parent id records that parent id, and the children the composite
\* detection finds for a component are the components whose cells have its
\* id as parent
C25_ParentRecorded ==
  (op = "detect_components" /\ components.raised = "") =>
    \A k \in 1..Len(cells) :
      (is_component_cell(cells[k]) /\ cells[k].id # << >>) =>
        /\ cells[k].parent # << >> =>
             \A c \in Range(components.value) :
               Get(c, "id", << >>) = cells[k].id =>
                 Get(c, "parent", None) = cells[k].parent
        /\ Range(children_of(components.value, cells[k].id, TRUE))
             = { cells[m].id :
                   m \in { n \in 1..Len(cells) :
                             /\ is_component_cell(cells[n])
                             /\ cells[n].parent = cells[k].id } }

C27_EveryThreatCriticalAtOne ==
  \A k \in 1..Len(threats) :
    /\ threats[k].risk_score = <<1, 1>>
    /\ threats[k].priority = "critical"

\* C27 met: detect_threats has returned threats that affect different
\* numbers of components, one of them composite
C27_DifferentNumbersAffected ==
  /\ op = "detect_threats"
  /\ \E k \in 1..Len(threats) : \E j \in 1..Len(threats) :
       /\ HasKey(threats[k], "is_composite")
       /\ Cardinality(threats[k].affected_components)
            > Cardinality(threats[j].affected_components)
       /\ threats[j].affected_components # {}

\* C28: when map_to_threagile reports success, validate_yaml reports no
\* missing required field on the mapped document
C28_MappedDocumentLacksNoField ==
  (op = "validate_yaml" /\ mapping.success) =>
    \A k \in 1..Len(validation.errors) :
      validation.errors[k].code # "missing field"

\* C29: in every flow of detect_flows the top-level authentication,
\* authorization and encryption agree with the flow's security context:
\* what the security context requires is required at top level
C29_TopLevelAgreesWithSecurity ==
  op = "detect_flows" =>
    \A k \in 1..Len(flows) :
      /\ flows[k].security.authentication = "required"
           => flows[k].authentication = "required"
      /\ flows[k].security.authorization = "required"
           => flows[k].authorization = "required"
      /\ flows[k].security.encryption = PyBool(TRUE)
           => flows[k].encryption = PyBool(TRUE)

\* C30: every composite archetype is promotable: a candidate whose label
\* matches the archetype's first naming pattern and whose children are one
\* component of each declared type, the most a detector can classify, is
\* promoted to a composite of that archetype
C30_EveryArchetypePromotable ==
  \A a \in 1..Len(composite_patterns) :
    LET pattern_info == composite_patterns[a]
        label == pattern_info.naming_patterns[1][1][1]
        entry(id, value, type, parent) ==
          [ id |-> id, name |-> value, value |-> value, type |-> type,
            parent |-> parent, authentication |-> "none",
            authorization |-> "none", data_sensitivity |-> "public" ]
        family ==
          << entry(<<"p">>, label, "process", <<"1">>) >>
          \o [k \in 1..Len(COMPONENT_TYPES) |->
                entry(<<"p">> \o decimal(k), << >>, COMPONENT_TYPES[k].name,
                      <<"p">>)]
        found == detect_composite_components(family, re_bound)
    IN  \E k \in 1..Len(found.value) :
          /\ found.value[k].id = <<"p">>
          /\ found.value[k].type = pattern_info.name
=============================================================================
